---------------------------- MODULE Spec2Model ----------------------------
(***************************************************************************)
(* GlowMeet matching service (backend/matching/service.go): the result     *)
(* store (in-process map and Redis backend), the bounded job queue, the    *)
(* worker pool and the orchestrator goroutines of CalculateMatchesAsync.   *)
(*                                                                         *)
(* The specifications share the variables:                                 *)
(*   SpecStore      the in-process store driven directly (UpdateMatch,     *)
(*                  LoadFromFile, GetMatch, GetTopMatches);                *)
(*   Spec           the pipeline: CalculateMatchesAsync, the queue, the    *)
(*                  workers, callAI and the in-process store; FairSpec     *)
(*                  and SpecGoodOracle add fair scheduling;                *)
(*   SpecRedis      the Redis backend, one Redis command per step;         *)
(*   SpecBoth       completed operations on both backends side by side;    *)
(*   SpecLock       the in-process store, one map access per step;         *)
(*   SpecParse      callAI on every answer text up to a length;            *)
(*   SpecService    seeds, reads and the pipeline together;                *)
(*   SpecRetrigger  repeated calls for one user, deterministic oracle;     *)
(*   SpecOrder      the pipeline with pairwise distinct jobs;              *)
(*   SpecSeed       LoadFromFile one map assignment per step, next to a    *)
(*                  writer and a reader;                                   *)
(*   SpecUsers      the server's in-memory user store (backend/main.go);   *)
(*   SpecStates     the server's OAuth state store, with a clock;          *)
(*   SpecTweets     fetchUserTweets run by two goroutines.                 *)
(***************************************************************************)
EXTENDS Integers, Sequences, FiniteSets, TLC

VARIABLES
    cache,      \* MemoryStorage.cache: viewer id -> target id -> MatchResult
    lastWrite,  \* history: the last result written under each (viewer, target)
    obs,        \* the last store operation a caller completed, with what it returned
    jobs,       \* Service.jobs: the buffered channel, oldest job first
    tasks,      \* the goroutines started by CalculateMatchesAsync, in start order
    workers,    \* the worker goroutines: where each is and the job it holds
    dequeued,   \* history: how often each job has been received from the channel
    calls,      \* history: how often each job has been handed to the oracle
    outcomes,   \* history: how many jobs have finished, and how the last one ended
    saturated,  \* history: CalculateMatchesAsync has returned in a saturated state
    rkv,        \* Redis: string keys "match:<viewer>:<target>" -> stored bytes
    rzset,      \* Redis: sorted sets "matches:<viewer>": member -> weight
    rclients,   \* RedisStorage callers: where each is inside UpdateMatch
    reply,      \* what the oracle answers to the call a worker is inside
    mu,         \* MemoryStorage.mu: the writer holding it, the readers holding it
    procs,      \* goroutines calling MemoryStorage directly: where each is
    users,      \* userStore.data: user id -> userProfile
    states,     \* stateStore.values: OAuth state -> (verifier, expiresAt)
    clock,      \* what time.Now() returns, in ticks
    puts,       \* history: how often put was called with each state
    pops,       \* history: how often pop returned a verifier for each state
    lastFetched,\* tweetStore.lastFetched: user id -> time of the last set
    fetchers,   \* goroutines running fetchUserTweets: where each is
    requests    \* history: the feed requests started (user, time, goroutine)

vars == <<cache, lastWrite, obs, jobs, tasks, workers, dequeued, calls,
          outcomes, saturated, rkv, rzset, rclients, reply, mu, procs,
          users, states, clock, puts, pops, lastFetched, fetchers, requests>>

storeVars == <<cache, lastWrite, obs>>
pipeVars  == <<jobs, tasks, workers, dequeued, calls, outcomes, saturated>>
redisVars == <<rkv, rzset, rclients>>
oracleVars == <<reply>>
lockVars  == <<mu, procs>>
userVars  == <<users>>
stateVars == <<states, puts, pops>>
tweetVars == <<lastFetched, fetchers, requests>>
appVars   == <<users, states, clock, puts, pops, lastFetched, fetchers, requests>>

-----------------------------------------------------------------------------
(* Data *)

\* User ids.
IDs == {"u1", "u2", "u3", "u4"}

\* What time.Now() returns to a direct caller of the store and to
\* LoadFromFile, and what it returns inside callAI; 0 is the zero time.Time.
\* The code never compares timestamps.
Times == {1}
WorkerTimes == {2}

\* MatchResult{} (the zero value).
ZeroResult == [TargetID |-> "", Score |-> 0, Reason |-> "", Timestamp |-> 0]

\* (score, reason) pairs a result can carry.  The score is whatever number
\* arrived: two of the samples are outside [0,100].
PLow  == [Score |-> -5,  Reason |-> "low"]
PMid  == [Score |-> 50,  Reason |-> "mid"]
PHigh == [Score |-> 150, Reason |-> "high"]
Payloads == { PLow, PMid, PHigh }

MakeResult(target, p, now) ==
    [TargetID |-> target, Score |-> p.Score, Reason |-> p.Reason, Timestamp |-> now]

EmptyMap == [x \in {} |-> ZeroResult]

\* History: under pair pr the result res was written last.
NoWrites == [pr \in {} |-> ZeroResult]
Record(h, pr, res) == (pr :> res) @@ h
Written(pr) == pr \in DOMAIN lastWrite
LastWritten(pr) == IF Written(pr) THEN lastWrite[pr] ELSE ZeroResult

\* All orders in which the elements of a finite set can be listed.
RECURSIVE Orders(_)
Orders(S) ==
    IF S = {} THEN { <<>> }
    ELSE UNION { { <<x>> \o o : o \in Orders(S \ {x}) } : x \in S }

-----------------------------------------------------------------------------
(* MemoryStorage *)

MemGetMatch(c, viewerID, targetID) ==
    IF viewerID \in DOMAIN c /\ targetID \in DOMAIN c[viewerID]
    THEN [m |-> c[viewerID][targetID], ok |-> TRUE]
    ELSE [m |-> ZeroResult, ok |-> FALSE]

\* for _, m := range vDeps { matches = append(matches, m) }: Go ranges over a
\* map in an unspecified order.
MapRange(vDeps) ==
    { [i \in 1..Cardinality(DOMAIN vDeps) |-> vDeps[o[i]]] : o \in Orders(DOMAIN vDeps) }

\* The comparison handed to sort.Slice.
LessFlipped(a, b) == a.Score < b.Score
Less(a, b) == a.Score > b.Score

\* sort.Slice(matches, less): some permutation of matches (the sort is not
\* stable) in which no later element is less than an earlier one.
SortSlice(matches) ==
    { [i \in DOMAIN matches |-> matches[p[i]]] : p \in
        { q \in Orders(DOMAIN matches) :
            \A i, j \in DOMAIN matches :
                i < j => ~Less(matches[q[j]], matches[q[i]]) } }

Returned(out) == [panic |-> FALSE, out |-> out]
Panicked == [panic |-> TRUE, out |-> <<>>]

\* if len(matches) > n { return matches[:n] }; return matches.  A negative n
\* makes matches[:n] a slice-bounds panic.
TruncateKeepLast(matches, n) ==
    IF Len(matches) > n
    THEN IF n < 0 THEN Panicked
         ELSE Returned(SubSeq(matches, Len(matches) - n + 1, Len(matches)))
    ELSE Returned(matches)
Truncate(matches, n) ==
    IF Len(matches) > n
    THEN IF n < 0 THEN Panicked ELSE Returned(SubSeq(matches, 1, n))
    ELSE Returned(matches)

\* GetTopMatches as it would be without its early return for a viewer that
\* has no map or an empty one.
MemGetTopMatchesNoCheck(c, viewerID, n) ==
    LET vDeps == IF viewerID \in DOMAIN c THEN c[viewerID] ELSE EmptyMap
    IN  UNION { { Truncate(s, n) : s \in SortSlice(m) } : m \in MapRange(vDeps) }

\* The set of values MemoryStorage.GetTopMatches can return in store state c.
MemGetTopMatches(c, viewerID, n) ==
    IF viewerID \notin DOMAIN c \/ Cardinality(DOMAIN c[viewerID]) = 0
    THEN { Returned(<<>>) }
    ELSE UNION { { Truncate(s, n) : s \in SortSlice(m) } : m \in MapRange(c[viewerID]) }

MemUpdateMatchKeepFirst(c, viewerID, targetID, res) ==
    LET c1 == IF viewerID \in DOMAIN c THEN c ELSE (viewerID :> EmptyMap) @@ c
    IN  [c1 EXCEPT ![viewerID] = c1[viewerID] @@ (targetID :> res)]
MemUpdateMatch(c, viewerID, targetID, res) ==
    LET c1 == IF viewerID \in DOMAIN c THEN c ELSE (viewerID :> EmptyMap) @@ c
    IN  [c1 EXCEPT ![viewerID] = (targetID :> res) @@ c1[viewerID]]

\* The seed files LoadFromFile is given: one that cannot be read, one that is
\* not a JSON array of records, and arrays of persistedMatch records.
Seed(v, t, p) == [ViewerID |-> v, TargetID |-> t, Score |-> p.Score, Reason |-> p.Reason]
SeedFiles ==
    { [readErr |-> TRUE,  jsonErr |-> FALSE, matches |-> <<>>],
      [readErr |-> FALSE, jsonErr |-> TRUE,  matches |-> <<>>],
      [readErr |-> FALSE, jsonErr |-> FALSE, matches |-> <<>>],
      [readErr |-> FALSE, jsonErr |-> FALSE, matches |-> <<Seed("u1", "u4", PHigh)>>],
      [readErr |-> FALSE, jsonErr |-> FALSE,
       matches |-> <<Seed("u1", "u3", PMid), Seed("u2", "u1", PLow), Seed("u1", "u3", PHigh)>>] }

\* The loop of LoadFromFile, were it to leave a pair that is already in the
\* map as it is.
RECURSIVE MemInsertAllKeepPresent(_, _, _)
MemInsertAllKeepPresent(c, matches, now) ==
    IF matches = <<>> THEN c
    ELSE LET m == Head(matches)
         IN  MemInsertAllKeepPresent(
                 MemUpdateMatchKeepFirst(c, m.ViewerID, m.TargetID,
                     [TargetID |-> m.TargetID, Score |-> m.Score,
                      Reason |-> m.Reason, Timestamp |-> now]),
                 Tail(matches), now)

RECURSIVE MemInsertAll(_, _, _)
MemInsertAll(c, matches, now) ==
    IF matches = <<>> THEN c
    ELSE LET m == Head(matches)
         IN  MemInsertAll(
                 MemUpdateMatch(c, m.ViewerID, m.TargetID,
                     [TargetID |-> m.TargetID, Score |-> m.Score,
                      Reason |-> m.Reason, Timestamp |-> now]),
                 Tail(matches), now)

\* LoadFromFile as it would be were it to start from a new map.
MemLoadFromFileReplace(c, file, now) ==
    IF file.readErr \/ file.jsonErr
    THEN [cache |-> c, err |-> TRUE]
    ELSE [cache |-> MemInsertAll([x \in {} |-> EmptyMap], file.matches, now), err |-> FALSE]

\* MemoryStorage.LoadFromFile: the new store and whether an error is returned.
MemLoadFromFile(c, file, now) ==
    IF file.readErr \/ file.jsonErr
    THEN [cache |-> c, err |-> TRUE]
    ELSE [cache |-> MemInsertAll(c, file.matches, now), err |-> FALSE]

\* Service.GetMatch: the stored result, or MatchResult{}.
ServiceGetMatch(c, viewerID, targetID) ==
    LET r == MemGetMatch(c, viewerID, targetID)
    IN  IF r.ok THEN r.m ELSE ZeroResult

-----------------------------------------------------------------------------
(* UserInput, matchingJob and the oracle *)

\* The profiles handed to CalculateMatchesAsync (UserInput; only the fields
\* that decide control flow are kept).  u1 has neither tweets nor interests.
Profile(id) ==
    CASE id = "u1" -> [ID |-> "u1", Interests |-> "",   Tweets |-> <<>>]
      [] id = "u2" -> [ID |-> "u2", Interests |-> "go", Tweets |-> <<>>]
      [] id = "u3" -> [ID |-> "u3", Interests |-> "",   Tweets |-> <<"hello">>]
      [] OTHER     -> [ID |-> id,   Interests |-> "ai", Tweets |-> <<"hi", "yo">>]

Job(v, c) == [viewer |-> v, candidate |-> c]

\* Text the oracle can answer with, as a sequence of tokens: a brace, a
\* member of a JSON object ("score": number, "reason": string), or prose
\* that holds no brace.
LBrace == [t |-> "{", v |-> 0, s |-> ""]
RBrace == [t |-> "}", v |-> 0, s |-> ""]
Prose  == [t |-> "prose", v |-> 0, s |-> ""]
ScoreMember(x)  == [t |-> "score", v |-> x, s |-> ""]
ReasonMember(x) == [t |-> "reason", v |-> 0, s |-> x]
\* The JSON literal null, and a JSON number standing alone.
Null   == [t |-> "null", v |-> 0, s |-> ""]
Number == [t |-> "number", v |-> 0, s |-> ""]

Contents ==
    { <<LBrace, ScoreMember(50), ReasonMember("mid"), RBrace>>,
      <<Prose, LBrace, ScoreMember(150), ReasonMember("high"), RBrace, Prose>>,
      <<Prose>>,
      <<LBrace, ScoreMember(50)>> }

\* What CreateChatCompletion can return: an error, a response without
\* choices, or a response whose first choice carries the text.
Responses ==
    { [err |-> TRUE,  choices |-> <<>>], [err |-> FALSE, choices |-> <<>>] }
    \cup { [err |-> FALSE, choices |-> <<content>>] : content \in Contents }

\* strings.Index / strings.LastIndex for a brace; 0 stands for Go's -1 and
\* positions count from 1.
Index(content, tok) ==
    IF \E i \in DOMAIN content : content[i].t = tok
    THEN CHOOSE i \in DOMAIN content :
             /\ content[i].t = tok
             /\ \A j \in DOMAIN content : content[j].t = tok => i <= j
    ELSE 0

LastIndex(content, tok) ==
    IF \E i \in DOMAIN content : content[i].t = tok
    THEN CHOOSE i \in DOMAIN content :
             /\ content[i].t = tok
             /\ \A j \in DOMAIN content : content[j].t = tok => j <= i
    ELSE 0

\* if start != -1 && end != -1 && end > start { content = content[start:end+1] }
ExtractJSON(content) ==
    LET start == Index(content, "{")
        end   == LastIndex(content, "}")
    IN  IF start # 0 /\ end # 0 /\ end > start
        THEN SubSeq(content, start, end)
        ELSE content

\* The value of the last member named key, or the zero value dflt.
RECURSIVE LastMember(_, _, _)
LastMember(text, key, dflt) ==
    IF text = <<>> THEN dflt
    ELSE LET m == text[Len(text)]
         IN  IF m.t = key THEN m
             ELSE LastMember(SubSeq(text, 1, Len(text) - 1), key, dflt)

\* json.Unmarshal([]byte(content), &out) for out struct{Score float64; Reason
\* string}: a JSON object, of which an absent member leaves its field zero,
\* or the literal null, which leaves out as it is; for any other JSON value
\* and for text that is not JSON it returns an error.
JSONUnmarshal(text) ==
    IF text = <<Null>> THEN [err |-> FALSE, Score |-> 0, Reason |-> ""]
    ELSE
    IF /\ Len(text) >= 2
       /\ text[1].t = "{"
       /\ text[Len(text)].t = "}"
       /\ \A i \in 2..(Len(text) - 1) : text[i].t \in {"score", "reason"}
    THEN [err |-> FALSE,
          Score  |-> LastMember(text, "score", ScoreMember(0)).v,
          Reason |-> LastMember(text, "reason", ReasonMember("")).s]
    ELSE [err |-> TRUE, Score |-> 0, Reason |-> ""]

Failure(kind) == [err |-> TRUE, kind |-> kind, res |-> ZeroResult]

\* callAI up to the oracle call: the "viewer has no data" return.
NoSignalCandidate(v, c) == Len(c.Tweets) = 0 /\ c.Interests = ""
NoSignal(v, c) == Len(v.Tweets) = 0 /\ v.Interests = ""

\* callAI from the oracle's answer on.
CallAIReturn(resp, c, now) ==
    IF resp.err THEN Failure("transport")
    ELSE IF Len(resp.choices) = 0 THEN Failure("nochoices")
    ELSE LET out == JSONUnmarshal(ExtractJSON(resp.choices[1]))
         IN  IF out.err THEN Failure("unparseable")
             ELSE [err |-> FALSE, kind |-> "ok",
                   res |-> [TargetID |-> c.ID, Score |-> out.Score,
                            Reason |-> out.Reason, Timestamp |-> now]]

\* The worker's loop body after callAI: on an error log and continue, else
\* updateCache(job.viewer.ID, job.candidate.ID, res).
WorkerStoreNever(c, job, r) == c
WorkerStoreAccumulate(c, job, r) ==
    IF r.err THEN c
    ELSE LET was == MemGetMatch(c, job.viewer.ID, job.candidate.ID)
         IN  MemUpdateMatch(c, job.viewer.ID, job.candidate.ID,
                 IF was.ok THEN [r.res EXCEPT !.Score = @ + was.m.Score] ELSE r.res)
WorkerStoreKeepPresent(c, job, r) ==
    IF r.err THEN c
    ELSE MemUpdateMatchKeepFirst(c, job.viewer.ID, job.candidate.ID, r.res)
WorkerStoreSwapped(c, job, r) ==
    IF r.err THEN c
    ELSE MemUpdateMatch(c, job.candidate.ID, job.viewer.ID, r.res)
WorkerStoreAlways(c, job, r) ==
    MemUpdateMatch(c, job.viewer.ID, job.candidate.ID, r.res)
WorkerStore(c, job, r) ==
    IF r.err THEN c
    ELSE MemUpdateMatch(c, job.viewer.ID, job.candidate.ID, r.res)

-----------------------------------------------------------------------------
(* The queue, the orchestrator goroutines and the workers *)

\* Capacity of the jobs channel: make(chan matchingJob, 1000), scaled down.
QueueCap == 2

\* The worker goroutines: for i := 0; i < 5; i++ { go s.worker(i) }, scaled
\* down to two.
Workers == {"w1", "w2"}

\* The (primary, candidates) arguments of CalculateMatchesAsync: an empty
\* list, the list of all users with the primary inside it (as triggerMatching
\* passes), a primary without data, and a list with a repeated candidate.
CallInputs ==
    { <<"u2", <<>>>>,
      <<"u2", <<"u1", "u2", "u3">>>>,
      <<"u1", <<"u1", "u2">>>> }

ProfileList(ids) == [i \in DOMAIN ids |-> Profile(ids[i])]

NoProfile == [ID |-> "", Interests |-> "", Tweets |-> <<>>]
NoJob == Job(NoProfile, NoProfile)

\* The goroutine CalculateMatchesAsync starts: the index of its range loop
\* (i), where it waits (pc: at the first or the second send of the loop
\* body, or done) and, as history, the jobs it has sent.
NewTask(primary, candidates) ==
    [primary |-> primary, candidates |-> candidates, i |-> 1, pc |-> "loop", sent |-> <<>>]

\* if c.ID == primary.ID { continue }
SkipNever(primary, c) == FALSE
SkipCandidate(primary, c) == c.ID = primary.ID

\* The job of the first and of the second send of the loop body.
SendJobForwardOnly(task) ==
    Job(task.primary, task.candidates[task.i])
SendJob(task) ==
    IF task.pc = "send1"
    THEN Job(task.primary, task.candidates[task.i])
    ELSE Job(task.candidates[task.i], task.primary)

\* s.jobs <- job proceeds only while the channel holds fewer than its
\* capacity; otherwise the sender waits.
CanSendAlways(q) == TRUE
CanSend(q) == Len(q) < QueueCap

\* Every worker is inside the oracle call and the channel is full.
Saturated ==
    /\ Len(jobs) = QueueCap
    /\ \A w \in Workers : workers[w].pc = "call"

\* for _, c := range candidates { if c.ID == primary.ID { continue } ... }:
\* the goroutine runs, without waiting for anything, from the loop head to
\* its next send or to the end of the list.
AdvanceIndexFirst(task) ==
    IF Len(task.candidates) = 0 THEN [task EXCEPT !.pc = "panic"]
    ELSE IF task.i > Len(task.candidates) THEN [task EXCEPT !.pc = "done"]
    ELSE [task EXCEPT !.pc = "send1"]
RECURSIVE Advance(_)
Advance(task) ==
    IF task.i > Len(task.candidates) THEN [task EXCEPT !.pc = "done"]
    ELSE IF SkipCandidate(task.primary, task.candidates[task.i])
         THEN Advance([task EXCEPT !.i = @ + 1])
         ELSE [task EXCEPT !.pc = "send1"]

\* CalculateMatchesAsync as it would be without the go statement: the
\* caller itself runs the loop and can return only once every job is sent.
RECURSIVE JobsOf(_, _)
JobsOf(primary, candidates) ==
    IF candidates = <<>> THEN <<>>
    ELSE LET c == Head(candidates)
         IN  (IF SkipCandidate(primary, c) THEN <<>> ELSE <<Job(primary, c), Job(c, primary)>>)
             \o JobsOf(primary, Tail(candidates))

CalculateMatchesInline(primary, candidates) ==
    /\ Len(jobs) + Len(JobsOf(primary, candidates)) <= QueueCap
    /\ jobs' = jobs \o JobsOf(primary, candidates)
    /\ tasks' = Append(tasks, [NewTask(primary, candidates) EXCEPT
                                  !.pc = "done", !.sent = JobsOf(primary, candidates)])
    /\ saturated' = (saturated \/ Saturated)
    /\ UNCHANGED <<workers, dequeued, calls, outcomes>>
    /\ UNCHANGED storeVars /\ UNCHANGED redisVars /\ UNCHANGED oracleVars /\ UNCHANGED appVars /\ UNCHANGED lockVars

\* CalculateMatchesAsync: go func() { ... }() and return.  The caller
\* touches neither the channel nor the workers.
CalculateMatchesAsync(primary, candidates) ==
    /\ tasks' = Append(tasks, Advance(NewTask(primary, candidates)))
    /\ saturated' = (saturated \/ Saturated)
    /\ UNCHANGED <<jobs, workers, dequeued, calls, outcomes>>
    /\ UNCHANGED storeVars /\ UNCHANGED redisVars /\ UNCHANGED oracleVars /\ UNCHANGED appVars /\ UNCHANGED lockVars

\* s.jobs <- matchingJob{...}: the first or the second send of the loop
\* body, and the loop up to the next send.
TaskSend(k) ==
    /\ tasks[k].pc \in {"send1", "send2"}
    /\ CanSend(jobs)
    /\ jobs' = Append(jobs, SendJob(tasks[k]))
    /\ tasks' = [tasks EXCEPT ![k] =
                    IF @.pc = "send1"
                    THEN [@ EXCEPT !.pc = "send2", !.sent = Append(@, SendJob(tasks[k]))]
                    ELSE Advance([@ EXCEPT !.pc = "loop", !.i = @ + 1,
                                          !.sent = Append(@, SendJob(tasks[k]))])]
    /\ UNCHANGED <<workers, dequeued, calls, outcomes, saturated>>
    /\ UNCHANGED storeVars /\ UNCHANGED redisVars /\ UNCHANGED oracleVars /\ UNCHANGED appVars /\ UNCHANGED lockVars

\* History: one more occurrence of job in bag b.
Count(b, job) ==
    IF job \in DOMAIN b THEN [b EXCEPT ![job] = @ + 1] ELSE (job :> 1) @@ b

Finished(r, job) == [n |-> outcomes.n + 1, kind |-> r.kind, job |-> job]

WriteHistory(job, r) ==
    IF r.err THEN lastWrite
    ELSE Record(lastWrite, <<job.viewer.ID, job.candidate.ID>>, r.res)

\* Where a worker is after a job that ended in r: after `continue` as after
\* updateCache it is back at the head of `for job := range s.jobs`.
AfterJobExitOnError(r) == IF r.err THEN "exit" ELSE "recv"
AfterJob(r) == "recv"

\* The worker as it would be were the channel to hand out the newest job.
WorkerReceiveNewest(w) ==
    /\ workers[w].pc = "recv"
    /\ jobs # <<>>
    /\ LET job == jobs[Len(jobs)]
       IN  /\ jobs' = SubSeq(jobs, 1, Len(jobs) - 1)
           /\ dequeued' = Count(dequeued, job)
           /\ IF NoSignal(job.viewer, job.candidate)
              THEN /\ outcomes' = Finished(Failure("nosignal"), job)
                   /\ UNCHANGED <<workers, calls>>
              ELSE /\ workers' = [workers EXCEPT ![w] = [pc |-> "call", job |-> job]]
                   /\ calls' = Count(calls, job)
                   /\ UNCHANGED outcomes
    /\ UNCHANGED <<tasks, saturated>>
    /\ UNCHANGED storeVars /\ UNCHANGED redisVars /\ UNCHANGED oracleVars /\ UNCHANGED appVars /\ UNCHANGED lockVars

\* The worker as it would be were it to start a goroutine per job
\* (go s.callAI(...)) and go on receiving: it takes the next job while its
\* earlier oracle call is still out.
WorkerReceiveDetached(w) ==
    /\ jobs # <<>>
    /\ LET job == Head(jobs)
       IN  /\ jobs' = Tail(jobs)
           /\ dequeued' = Count(dequeued, job)
           /\ IF NoSignal(job.viewer, job.candidate)
              THEN /\ outcomes' = Finished(Failure("nosignal"), job)
                   /\ UNCHANGED <<workers, calls>>
              ELSE /\ workers' = [workers EXCEPT ![w] = [pc |-> "call", job |-> job]]
                   /\ calls' = Count(calls, job)
                   /\ UNCHANGED outcomes
    /\ UNCHANGED <<tasks, saturated>>
    /\ UNCHANGED storeVars /\ UNCHANGED redisVars /\ UNCHANGED oracleVars /\ UNCHANGED appVars /\ UNCHANGED lockVars

\* for job := range s.jobs, and callAI up to the oracle call.  A viewer
\* without data ends the job here; otherwise the request goes out.
WorkerReceive(w) ==
    /\ workers[w].pc = "recv"
    /\ jobs # <<>>
    /\ LET job == Head(jobs)
       IN  /\ jobs' = Tail(jobs)
           /\ dequeued' = Count(dequeued, job)
           /\ IF NoSignal(job.viewer, job.candidate)
              THEN /\ cache' = WorkerStore(cache, job, Failure("nosignal"))
                   /\ lastWrite' = WriteHistory(job, Failure("nosignal"))
                   /\ outcomes' = Finished(Failure("nosignal"), job)
                   /\ workers' = [workers EXCEPT ![w] =
                          [pc |-> AfterJob(Failure("nosignal")), job |-> NoJob]]
                   /\ UNCHANGED calls
              ELSE /\ workers' = [workers EXCEPT ![w] = [pc |-> "call", job |-> job]]
                   /\ calls' = Count(calls, job)
                   /\ UNCHANGED <<cache, lastWrite, outcomes>>
    /\ UNCHANGED <<tasks, saturated, obs>>
    /\ UNCHANGED redisVars /\ UNCHANGED oracleVars /\ UNCHANGED appVars /\ UNCHANGED lockVars

\* The worker as it would be with a retry: a job that failed goes back on
\* the channel when there is room.
WorkerReturnRetry(w, resp, now) ==
    /\ workers[w].pc = "call"
    /\ LET job == workers[w].job
           r   == CallAIReturn(resp, job.candidate, now)
       IN  /\ cache' = WorkerStore(cache, job, r)
           /\ lastWrite' = WriteHistory(job, r)
           /\ outcomes' = Finished(r, job)
           /\ workers' = [workers EXCEPT ![w] = [pc |-> AfterJob(r), job |-> NoJob]]
           /\ jobs' = IF r.err /\ CanSend(jobs) THEN Append(jobs, job) ELSE jobs
    /\ UNCHANGED <<tasks, dequeued, calls, saturated, obs>>
    /\ UNCHANGED redisVars /\ UNCHANGED oracleVars /\ UNCHANGED appVars /\ UNCHANGED lockVars

\* The oracle answers; callAI parses; the worker stores or drops.
WorkerReturn(w, resp, now) ==
    /\ workers[w].pc = "call"
    /\ LET job == workers[w].job
           r   == CallAIReturn(resp, job.candidate, now)
       IN  /\ cache' = WorkerStore(cache, job, r)
           /\ lastWrite' = WriteHistory(job, r)
           /\ outcomes' = Finished(r, job)
           /\ workers' = [workers EXCEPT ![w] = [pc |-> AfterJob(r), job |-> NoJob]]
    /\ UNCHANGED <<jobs, tasks, dequeued, calls, saturated, obs>>
    /\ UNCHANGED redisVars /\ UNCHANGED oracleVars /\ UNCHANGED appVars /\ UNCHANGED lockVars

-----------------------------------------------------------------------------
(* RedisStorage: the Redis commands it issues, as functions of the data *)

\* json.Marshal / json.Unmarshal of a MatchResult: the four members in
\* declaration order; Unmarshal starts from the zero value.
Marshal(res) ==
    << <<"target_id", res.TargetID>>, <<"score", res.Score>>,
       <<"reason", res.Reason>>, <<"timestamp", res.Timestamp>> >>

\* The value json.Unmarshal leaves in a field: that of the last member with
\* the field's name, the field's old value when there is none.
RECURSIVE Member(_, _, _)
Member(data, key, dflt) ==
    IF data = <<>> THEN dflt
    ELSE LET last == data[Len(data)]
         IN  IF last[1] = key THEN last[2]
             ELSE Member(SubSeq(data, 1, Len(data) - 1), key, dflt)

Unmarshal(data) ==
    [TargetID  |-> Member(data, "target_id", ZeroResult.TargetID),
     Score     |-> Member(data, "score", ZeroResult.Score),
     Reason    |-> Member(data, "reason", ZeroResult.Reason),
     Timestamp |-> Member(data, "timestamp", ZeroResult.Timestamp)]

\* The point key as it would be were a pair stored without its direction.
MatchKeyUnordered(viewerID, targetID) == <<"match", {viewerID, targetID}>>

\* The key "match:<viewer>:<target>" and the key "matches:<viewer>".
MatchKey(viewerID, targetID) == <<"match", viewerID, targetID>>
RankKey(viewerID) == <<"matches", viewerID>>

\* GET: the bytes, or redis.Nil.
RedisGet(kv, key) ==
    IF key \in DOMAIN kv THEN [nil |-> FALSE, val |-> kv[key]]
    ELSE [nil |-> TRUE, val |-> <<>>]

\* SET key value, no expiry.
RedisSetCmd(kv, key, val) == (key :> val) @@ kv

\* ZADD key weight member: adds the member or changes its weight.
RedisZAddCmd(zs, key, weight, member) ==
    LET old == IF key \in DOMAIN zs THEN zs[key] ELSE [x \in {} |-> 0]
    IN  (key :> ((member :> weight) @@ old)) @@ zs

\* Redis orders a sorted set by weight, members of equal weight by their
\* bytes; ZREVRANGE reads it from the highest end.
IDRank(id) == CHOOSE k \in 1..4 : id = <<"u1", "u2", "u3", "u4">>[k]

ZRevOrder(set) ==
    CHOOSE o \in Orders(DOMAIN set) :
        \A i, j \in DOMAIN o :
            i < j => \/ set[o[i]] > set[o[j]]
                     \/ set[o[i]] = set[o[j]] /\ IDRank(o[i]) > IDRank(o[j])

\* ZREVRANGE key start stop: negative indexes count from the end, the range
\* is clipped to the set, an absent key is an empty set.
RedisZRevRange(zs, key, start, stop) ==
    LET set  == IF key \in DOMAIN zs THEN zs[key] ELSE [x \in {} |-> 0]
        all  == ZRevOrder(set)
        len  == Len(all)
        from == IF start < 0 THEN (IF len + start < 0 THEN 0 ELSE len + start) ELSE start
        upto == IF stop < 0 THEN len + stop ELSE (IF stop >= len THEN len - 1 ELSE stop)
    IN  IF from > upto \/ from >= len THEN <<>> ELSE SubSeq(all, from + 1, upto + 1)

\* RedisStorage.GetMatch: one GET.
RedisGetMatch(kv, viewerID, targetID) ==
    LET r == RedisGet(kv, MatchKey(viewerID, targetID))
    IN  IF r.nil THEN [m |-> ZeroResult, ok |-> FALSE]
        ELSE [m |-> Unmarshal(r.val), ok |-> TRUE]

\* RedisStorage.GetTopMatches when no other command comes between its
\* ZREVRANGE and its GETs.
RECURSIVE RedisFetch(_, _, _)
RedisFetch(kv, viewerID, ids) ==
    IF ids = <<>> THEN <<>>
    ELSE LET g == RedisGetMatch(kv, viewerID, Head(ids))
         IN  (IF g.ok THEN <<g.m>> ELSE <<>>) \o RedisFetch(kv, viewerID, Tail(ids))

RedisGetTopMatches(kv, zs, viewerID, n) ==
    RedisFetch(kv, viewerID, RedisZRevRange(zs, RankKey(viewerID), 0, n - 1))

\* RedisStorage.UpdateMatch from call to return with no other command in
\* between: the pipeline's SET, then its ZADD.
RedisUpdateMatchDone(store, viewerID, targetID, res) ==
    [kv |-> RedisSetCmd(store.kv, MatchKey(viewerID, targetID), Marshal(res)),
     zs |-> RedisZAddCmd(store.zs, RankKey(viewerID), res.Score, targetID)]

\* RedisStorage.LoadFromFile: UpdateMatch for each record, first to last.
RECURSIVE RedisInsertAll(_, _, _)
RedisInsertAll(store, matches, now) ==
    IF matches = <<>> THEN store
    ELSE LET m == Head(matches)
         IN  RedisInsertAll(
                 RedisUpdateMatchDone(store, m.ViewerID, m.TargetID,
                     [TargetID |-> m.TargetID, Score |-> m.Score,
                      Reason |-> m.Reason, Timestamp |-> now]),
                 Tail(matches), now)

RedisLoadFromFile(store, file, now) ==
    IF file.readErr \/ file.jsonErr
    THEN [store |-> store, err |-> TRUE]
    ELSE [store |-> RedisInsertAll(store, file.matches, now), err |-> FALSE]

\* Service.GetMatch over the Redis backend.
ServiceGetMatchRedis(kv, viewerID, targetID) ==
    LET r == RedisGetMatch(kv, viewerID, targetID)
    IN  IF r.ok THEN r.m ELSE ZeroResult

\* The callers of the Redis backend: two writers and a reader.
RedisWriters == {"c1", "c2"}
RedisReaders == {"r1"}
RedisClients == RedisWriters \cup RedisReaders

IdleClient == [pc |-> "idle", viewer |-> "", target |-> "", n |-> 0,
               res |-> ZeroResult, data |-> <<>>, ids |-> <<>>, out |-> <<>>]

-----------------------------------------------------------------------------
(* The state after construction (NewServiceWithClient) *)

Pairs == IDs \X IDs

EmptyCache == [x \in {} |-> EmptyMap]

NoObs == [op |-> "none", viewer |-> "", target |-> "", n |-> 0,
          m |-> ZeroResult, prev |-> ZeroResult, hadPrev |-> FALSE,
          ret |-> Returned(<<>>), err |-> FALSE]

StoreInit ==
    /\ cache = EmptyCache
    /\ lastWrite = NoWrites
    /\ obs = NoObs

EmptyBag == [j \in {} |-> 0]

NoOutcome == [n |-> 0, kind |-> "none", job |-> NoJob]

PipeInit ==
    /\ jobs = <<>>
    /\ tasks = <<>>
    /\ workers = [w \in Workers |-> [pc |-> "recv", job |-> NoJob]]
    /\ dequeued = EmptyBag
    /\ calls = EmptyBag
    /\ outcomes = NoOutcome
    /\ saturated = FALSE

RedisInit ==
    /\ rkv = [k \in {} |-> <<>>]
    /\ rzset = [k \in {} |-> [x \in {} |-> 0]]
    /\ rclients = [c \in RedisClients |-> IdleClient]

\* No oracle call is under way.
NoReply == [err |-> TRUE, choices |-> <<>>]

OracleInit == reply = NoReply

\* Goroutines that call MemoryStorage.UpdateMatch and GetTopMatches at the
\* same time (TestService_Concurrency: 10 producers and 5 readers, scaled
\* down), and the RWMutex, held by nobody.
LockWriters == {"p1", "p2"}
LockReaders == {"q1", "q2"}
LockProcs == LockWriters \cup LockReaders

IdleProc == [pc |-> "idle", viewer |-> "", target |-> "", res |-> ZeroResult,
             n |-> 0, todo |-> {}, matches |-> <<>>, snap |-> EmptyCache]

Unlocked == [writer |-> "", readers |-> {}]

LockInit ==
    /\ mu = Unlocked
    /\ procs = [p \in LockProcs |-> IdleProc]

\* newUserStore, newStateStore and newTweetStore: empty maps.
NoUsers == [id \in {} |-> [ID |-> "", Username |-> "", Description |-> "",
                            MatchingScore |-> 0]]
NoStates == [st \in {} |-> [verifier |-> "", expiresAt |-> 0]]
NeverFetched == [id \in {} |-> 0]
OAuthStates == {"s1", "s2"}
Fetchers == {"f1", "f2"}
IdleFetcher == [pc |-> "idle", user |-> ""]

AppInit ==
    /\ users = NoUsers
    /\ states = NoStates
    /\ clock = 0
    /\ puts = [st \in OAuthStates |-> 0]
    /\ pops = [st \in OAuthStates |-> 0]
    /\ lastFetched = NeverFetched
    /\ fetchers = [f \in Fetchers |-> IdleFetcher]
    /\ requests = {}

Init == StoreInit /\ PipeInit /\ RedisInit /\ OracleInit /\ LockInit /\ AppInit

-----------------------------------------------------------------------------
(* SpecStore: the Storage operations, called directly *)

\* The largest n GetTopMatches is called with.
MaxN == 3

\* The (viewer, target) pairs written in SpecStore: three targets under one
\* viewer, and the reverse direction of one of them.
StorePairs == { <<"u1", "u2">>, <<"u1", "u3">>, <<"u1", "u4">>, <<"u2", "u1">> }

StoreUpdateMatch(viewerID, targetID, p, now) ==
    LET res  == MakeResult(targetID, p, now)
        was  == MemGetMatch(cache, viewerID, targetID)
    IN  /\ cache' = MemUpdateMatch(cache, viewerID, targetID, res)
        /\ lastWrite' = Record(lastWrite, <<viewerID, targetID>>, res)
        /\ obs' = [NoObs EXCEPT !.op = "update", !.viewer = viewerID, !.target = targetID,
                                !.m = res, !.prev = was.m, !.hadPrev = was.ok]
        /\ UNCHANGED pipeVars /\ UNCHANGED redisVars /\ UNCHANGED oracleVars /\ UNCHANGED appVars /\ UNCHANGED lockVars

\* History of a load: the records of the file, first to last.
RECURSIVE RecordSeeds(_, _, _)
RecordSeeds(h, matches, now) ==
    IF matches = <<>> THEN h
    ELSE LET m == Head(matches)
         IN  RecordSeeds(
                 Record(h, <<m.ViewerID, m.TargetID>>,
                        [TargetID |-> m.TargetID, Score |-> m.Score,
                         Reason |-> m.Reason, Timestamp |-> now]),
                 Tail(matches), now)

StoreLoadFromFile(file, now) ==
    LET r == MemLoadFromFile(cache, file, now)
    IN  /\ cache' = r.cache
        /\ lastWrite' = IF r.err THEN lastWrite
                         ELSE RecordSeeds(lastWrite, file.matches, now)
        /\ obs' = [NoObs EXCEPT !.op = "load", !.err = r.err]
        /\ UNCHANGED pipeVars /\ UNCHANGED redisVars /\ UNCHANGED oracleVars /\ UNCHANGED appVars /\ UNCHANGED lockVars

StoreGetMatch(viewerID, targetID) ==
    /\ obs' = [NoObs EXCEPT !.op = "get", !.viewer = viewerID, !.target = targetID,
                            !.m = ServiceGetMatch(cache, viewerID, targetID)]
    /\ UNCHANGED <<cache, lastWrite>>
    /\ UNCHANGED pipeVars /\ UNCHANGED redisVars /\ UNCHANGED oracleVars /\ UNCHANGED appVars /\ UNCHANGED lockVars

StoreGetTopMatches(viewerID, n) ==
    /\ \E ret \in MemGetTopMatches(cache, viewerID, n) :
           obs' = [NoObs EXCEPT !.op = "top", !.viewer = viewerID, !.n = n, !.ret = ret]
    /\ UNCHANGED <<cache, lastWrite>>
    /\ UNCHANGED pipeVars /\ UNCHANGED redisVars /\ UNCHANGED oracleVars /\ UNCHANGED appVars /\ UNCHANGED lockVars

StoreNext ==
    \/ \E pr \in StorePairs, p \in Payloads, now \in Times :
           StoreUpdateMatch(pr[1], pr[2], p, now)
    \/ \E file \in SeedFiles, now \in Times : StoreLoadFromFile(file, now)
    \/ \E pr \in StorePairs \cup {<<"u3", "u1">>} : StoreGetMatch(pr[1], pr[2])
    \/ \E viewerID \in {"u1", "u2", "u3"}, n \in -1..MaxN : StoreGetTopMatches(viewerID, n)

SpecStore == Init /\ [][StoreNext]_vars

-----------------------------------------------------------------------------
(* Spec: the pipeline over the in-process store *)

\* Each of the CallInputs is passed at most once in a run.
NotYetCalled(in) ==
    \A k \in DOMAIN tasks :
        tasks[k].primary # Profile(in[1]) \/ tasks[k].candidates # ProfileList(in[2])

Next ==
    \/ \E in \in CallInputs :
           NotYetCalled(in) /\ CalculateMatchesAsync(Profile(in[1]), ProfileList(in[2]))
    \/ \E k \in DOMAIN tasks : TaskSend(k)
    \/ \E w \in Workers : WorkerReceive(w)
    \/ \E w \in Workers, resp \in Responses, now \in WorkerTimes : WorkerReturn(w, resp, now)

Spec == Init /\ [][Next]_vars

\* The Go scheduler runs every goroutine that can take a step: a sender on
\* a channel with room, a receiver on a channel with a job.  An oracle call
\* returns: the HTTP client gives up after its timeout (xai.NewClient).
Fairness ==
    /\ WF_vars(\E k \in DOMAIN tasks : TaskSend(k))
    /\ WF_vars(\E w \in Workers : WorkerReceive(w))
    /\ WF_vars(\E w \in Workers, resp \in Responses, now \in WorkerTimes :
                   WorkerReturn(w, resp, now))

FairSpec == Spec /\ Fairness

\* SpecGoodOracle: the pipeline with an oracle that answers every call with
\* a {score, reason} object, bare or inside prose.
IsAnswer(content) ==
    \E a, b \in DOMAIN content :
        /\ a < b
        /\ content[a] = LBrace /\ content[b] = RBrace
        /\ \A i \in DOMAIN content : (i < a \/ i > b) => content[i] = Prose
        /\ \A i \in (a + 1)..(b - 1) : content[i].t \in {"score", "reason"}
        /\ \E i \in (a + 1)..(b - 1) : content[i].t = "score"
        /\ \E i \in (a + 1)..(b - 1) : content[i].t = "reason"

GoodResponses ==
    { r \in Responses : ~r.err /\ Len(r.choices) >= 1 /\ IsAnswer(r.choices[1]) }

GoodNext ==
    \/ \E in \in CallInputs :
           NotYetCalled(in) /\ CalculateMatchesAsync(Profile(in[1]), ProfileList(in[2]))
    \/ \E k \in DOMAIN tasks : TaskSend(k)
    \/ \E w \in Workers : WorkerReceive(w)
    \/ \E w \in Workers, resp \in GoodResponses, now \in WorkerTimes : WorkerReturn(w, resp, now)

SpecGoodOracle == Init /\ [][GoodNext]_vars /\ Fairness

-----------------------------------------------------------------------------
(* SpecRedis: RedisStorage, one Redis command per step *)

\* The writes the callers make: two scores for one pair, one for another.
RedisWrites == { <<"u1", "u2", PMid>>, <<"u1", "u2", PHigh>>, <<"u1", "u3", PMid>> }

\* UpdateMatch up to Exec: the result is marshalled and SET and ZADD are
\* queued in a pipeline, which Redis runs in order but not as a transaction.
RedisUpdateMatch(c, viewerID, targetID, p, now) ==
    LET res == MakeResult(targetID, p, now)
    IN  /\ rclients[c].pc = "idle"
        /\ rclients' = [rclients EXCEPT ![c] =
               [IdleClient EXCEPT !.pc = "set", !.viewer = viewerID, !.target = targetID,
                                  !.res = res, !.data = Marshal(res)]]
        /\ UNCHANGED <<rkv, rzset>>
        /\ UNCHANGED storeVars /\ UNCHANGED pipeVars /\ UNCHANGED oracleVars /\ UNCHANGED appVars /\ UNCHANGED lockVars

\* Redis runs the pipeline's SET.
RedisExecSet(c) ==
    LET cl == rclients[c]
    IN  /\ cl.pc = "set"
        /\ rkv' = RedisSetCmd(rkv, MatchKey(cl.viewer, cl.target), cl.data)
        /\ rclients' = [rclients EXCEPT ![c].pc = "zadd"]
        /\ UNCHANGED rzset
        /\ UNCHANGED storeVars /\ UNCHANGED pipeVars /\ UNCHANGED oracleVars /\ UNCHANGED appVars /\ UNCHANGED lockVars

\* Redis runs the pipeline's ZADD; Exec and UpdateMatch return.
RedisExecZAdd(c) ==
    LET cl == rclients[c]
    IN  /\ cl.pc = "zadd"
        /\ rzset' = RedisZAddCmd(rzset, RankKey(cl.viewer), cl.res.Score, cl.target)
        /\ rclients' = [rclients EXCEPT ![c] = IdleClient]
        /\ UNCHANGED rkv
        /\ UNCHANGED storeVars /\ UNCHANGED pipeVars /\ UNCHANGED oracleVars /\ UNCHANGED appVars /\ UNCHANGED lockVars

\* GetTopMatches by a reader: the ZREVRANGE.
RedisReadTopStart(c, viewerID, n) ==
    /\ rclients[c].pc = "idle"
    /\ rclients' = [rclients EXCEPT ![c] =
           [IdleClient EXCEPT !.pc = "fetch", !.viewer = viewerID, !.n = n,
                              !.ids = RedisZRevRange(rzset, RankKey(viewerID), 0, n - 1)]]
    /\ UNCHANGED <<rkv, rzset>>
    /\ UNCHANGED storeVars /\ UNCHANGED pipeVars /\ UNCHANGED oracleVars /\ UNCHANGED appVars /\ UNCHANGED lockVars

\* GetTopMatches by a reader: the GET of the next id, or the return.
RedisReadTopFetch(c) ==
    LET cl == rclients[c]
    IN  /\ cl.pc = "fetch"
        /\ IF cl.ids = <<>> THEN
               /\ obs' = [NoObs EXCEPT !.op = "rtop", !.viewer = cl.viewer, !.n = cl.n,
                                       !.ret = Returned(cl.out)]
               /\ rclients' = [rclients EXCEPT ![c] = IdleClient]
           ELSE
               LET g == RedisGetMatch(rkv, cl.viewer, Head(cl.ids))
               IN  /\ rclients' = [rclients EXCEPT
                          ![c].ids = Tail(cl.ids),
                          ![c].out = IF g.ok THEN Append(cl.out, g.m) ELSE cl.out]
                   /\ obs' = obs
        /\ UNCHANGED <<cache, lastWrite>>
        /\ UNCHANGED <<rkv, rzset>> /\ UNCHANGED pipeVars /\ UNCHANGED oracleVars /\ UNCHANGED appVars /\ UNCHANGED lockVars

RedisNext ==
    \/ \E c \in RedisWriters, w \in RedisWrites, now \in Times :
           RedisUpdateMatch(c, w[1], w[2], w[3], now)
    \/ \E c \in RedisWriters : RedisExecSet(c)
    \/ \E c \in RedisWriters : RedisExecZAdd(c)
    \/ \E c \in RedisReaders, n \in {1, 2} : RedisReadTopStart(c, "u1", n)
    \/ \E c \in RedisReaders : RedisReadTopFetch(c)

SpecRedis == Init /\ [][RedisNext]_vars

-----------------------------------------------------------------------------
(* SpecBoth: the same completed operations on a MemoryStorage and on a
   RedisStorage, side by side *)

BothUpdateMatch(viewerID, targetID, p, now) ==
    LET res == MakeResult(targetID, p, now)
        r   == RedisUpdateMatchDone([kv |-> rkv, zs |-> rzset], viewerID, targetID, res)
    IN  /\ cache' = MemUpdateMatch(cache, viewerID, targetID, res)
        /\ rkv' = r.kv
        /\ rzset' = r.zs
        /\ lastWrite' = Record(lastWrite, <<viewerID, targetID>>, res)
        /\ obs' = [op |-> "update", viewer |-> viewerID, target |-> targetID, m |-> res]
        /\ UNCHANGED rclients
        /\ UNCHANGED pipeVars /\ UNCHANGED oracleVars /\ UNCHANGED appVars /\ UNCHANGED lockVars

BothLoadFromFile(file, now) ==
    LET m == MemLoadFromFile(cache, file, now)
        r == RedisLoadFromFile([kv |-> rkv, zs |-> rzset], file, now)
    IN  /\ cache' = m.cache
        /\ rkv' = r.store.kv
        /\ rzset' = r.store.zs
        /\ lastWrite' = IF m.err THEN lastWrite
                         ELSE RecordSeeds(lastWrite, file.matches, now)
        /\ obs' = [op |-> "load", file |-> file, now |-> now,
                   err |-> m.err, rerr |-> r.err]
        /\ UNCHANGED rclients
        /\ UNCHANGED pipeVars /\ UNCHANGED oracleVars /\ UNCHANGED appVars /\ UNCHANGED lockVars

\* Service.GetMatch, asked of either backend.
BothGetMatch(viewerID, targetID) ==
    /\ obs' = [op |-> "get", viewer |-> viewerID, target |-> targetID,
               mem |-> ServiceGetMatch(cache, viewerID, targetID),
               red |-> ServiceGetMatchRedis(rkv, viewerID, targetID)]
    /\ UNCHANGED <<cache, lastWrite>> /\ UNCHANGED redisVars
    /\ UNCHANGED pipeVars /\ UNCHANGED oracleVars /\ UNCHANGED appVars /\ UNCHANGED lockVars

\* Service.GetTopMatches, asked of either backend.
BothGetTopMatches(viewerID, n) ==
    /\ \E ret \in MemGetTopMatches(cache, viewerID, n) :
           obs' = [op |-> "top", viewer |-> viewerID, n |-> n, mem |-> ret,
                   red |-> RedisGetTopMatches(rkv, rzset, viewerID, n)]
    /\ UNCHANGED <<cache, lastWrite>> /\ UNCHANGED redisVars
    /\ UNCHANGED pipeVars /\ UNCHANGED oracleVars /\ UNCHANGED appVars /\ UNCHANGED lockVars

BothNext ==
    \/ \E pr \in StorePairs, p \in Payloads, now \in Times :
           BothUpdateMatch(pr[1], pr[2], p, now)
    \/ \E file \in SeedFiles, now \in Times : BothLoadFromFile(file, now)
    \/ \E pr \in {<<"u1", "u2">>, <<"u1", "u3">>, <<"u3", "u1">>} : BothGetMatch(pr[1], pr[2])
    \/ \E viewerID \in {"u1", "u3"}, n \in {-1, 0, 2} : BothGetTopMatches(viewerID, n)

SpecBoth == Init /\ [][BothNext]_vars

-----------------------------------------------------------------------------
(* SpecLock: goroutines inside MemoryStorage.UpdateMatch and GetTopMatches,
   one map access per step, under the RWMutex *)

\* The writes the writers make: two scores for one pair, one for another.
LockWrites == { <<"u1", "u2", PMid>>, <<"u1", "u2", PHigh>>, <<"u1", "u3", PMid>> }

\* s.mu.Lock() returns once no goroutine holds the mutex.
CanLock(m) == m.writer = "" /\ m.readers = {}

\* s.mu.RLock() returns once no writer holds the mutex.
CanRLockAlways(m) == TRUE
CanRLock(m) == m.writer = ""

\* UpdateMatch: s.mu.Lock().
LockUpdateMatch(p, viewerID, targetID, payload, now) ==
    /\ procs[p].pc = "idle"
    /\ CanLock(mu)
    /\ mu' = [mu EXCEPT !.writer = p]
    /\ procs' = [procs EXCEPT ![p] =
           [IdleProc EXCEPT !.pc = "check", !.viewer = viewerID, !.target = targetID,
                            !.res = MakeResult(targetID, payload, now)]]
    /\ UNCHANGED storeVars
    /\ UNCHANGED pipeVars /\ UNCHANGED redisVars /\ UNCHANGED oracleVars /\ UNCHANGED appVars

\* UpdateMatch: if _, ok := s.cache[viewerID]; !ok { s.cache[viewerID] = make(...) }
LockUpdateCheck(p) ==
    LET pr == procs[p]
    IN  /\ pr.pc = "check"
        /\ cache' = IF pr.viewer \in DOMAIN cache THEN cache
                    ELSE (pr.viewer :> EmptyMap) @@ cache
        /\ procs' = [procs EXCEPT ![p].pc = "assign"]
        /\ UNCHANGED <<lastWrite, obs, mu>>
        /\ UNCHANGED pipeVars /\ UNCHANGED redisVars /\ UNCHANGED oracleVars /\ UNCHANGED appVars

\* UpdateMatch: s.cache[viewerID][targetID] = res, and the deferred Unlock.
LockUpdateAssign(p) ==
    LET pr == procs[p]
    IN  /\ pr.pc = "assign"
        /\ cache' = MemUpdateMatch(cache, pr.viewer, pr.target, pr.res)
        /\ lastWrite' = Record(lastWrite, <<pr.viewer, pr.target>>, pr.res)
        /\ mu' = [mu EXCEPT !.writer = IF @ = p THEN "" ELSE @]
        /\ procs' = [procs EXCEPT ![p] = IdleProc]
        /\ UNCHANGED obs
        /\ UNCHANGED pipeVars /\ UNCHANGED redisVars /\ UNCHANGED oracleVars /\ UNCHANGED appVars

\* GetTopMatches: s.mu.RLock() and vDeps, ok := s.cache[viewerID].
LockTopStart(q, viewerID, n) ==
    /\ procs[q].pc = "idle"
    /\ CanRLock(mu)
    /\ mu' = [mu EXCEPT !.readers = @ \cup {q}]
    /\ procs' = [procs EXCEPT ![q] =
           [IdleProc EXCEPT !.pc = "range", !.viewer = viewerID, !.n = n, !.snap = cache,
                            !.todo = IF viewerID \in DOMAIN cache
                                     THEN DOMAIN cache[viewerID] ELSE {}]]
    /\ UNCHANGED storeVars
    /\ UNCHANGED pipeVars /\ UNCHANGED redisVars /\ UNCHANGED oracleVars /\ UNCHANGED appVars

\* GetTopMatches: one iteration of for _, m := range vDeps, in any order.
LockTopRange(q) ==
    LET pr == procs[q]
    IN  /\ pr.pc = "range"
        /\ \E t \in pr.todo :
               procs' = [procs EXCEPT
                   ![q].todo = pr.todo \ {t},
                   ![q].matches = IF t \in DOMAIN cache[pr.viewer]
                                  THEN Append(pr.matches, cache[pr.viewer][t])
                                  ELSE pr.matches]
        /\ UNCHANGED storeVars /\ UNCHANGED mu
        /\ UNCHANGED pipeVars /\ UNCHANGED redisVars /\ UNCHANGED oracleVars /\ UNCHANGED appVars

\* GetTopMatches: the sort, the truncation, the return and the deferred
\* RUnlock; the early return when the viewer has no entry.
LockTopReturn(q) ==
    LET pr == procs[q]
    IN  /\ pr.pc = "range"
        /\ pr.todo = {}
        /\ \E ret \in (IF pr.matches = <<>> THEN { Returned(<<>>) }
                       ELSE { Truncate(m, pr.n) : m \in SortSlice(pr.matches) }) :
               obs' = [op |-> "ltop", viewer |-> pr.viewer, n |-> pr.n,
                       ret |-> ret, snap |-> pr.snap]
        /\ mu' = [mu EXCEPT !.readers = @ \ {q}]
        /\ procs' = [procs EXCEPT ![q] = IdleProc]
        /\ UNCHANGED <<cache, lastWrite>>
        /\ UNCHANGED pipeVars /\ UNCHANGED redisVars /\ UNCHANGED oracleVars /\ UNCHANGED appVars

LockNext ==
    \/ \E p \in LockWriters, w \in LockWrites, now \in Times :
           LockUpdateMatch(p, w[1], w[2], w[3], now)
    \/ \E p \in LockWriters : LockUpdateCheck(p)
    \/ \E p \in LockWriters : LockUpdateAssign(p)
    \/ \E q \in LockReaders, n \in {1, 2} : LockTopStart(q, "u1", n)
    \/ \E q \in LockReaders : LockTopRange(q)
    \/ \E q \in LockReaders : LockTopReturn(q)

SpecLock == Init /\ [][LockNext]_vars

-----------------------------------------------------------------------------
(* SpecParse: one worker inside an oracle call, and every text the oracle
   can answer with, up to a length *)

\* The longest text between the optional leading and trailing prose.
MaxLen == 4

Tokens == { LBrace, RBrace, Prose, ScoreMember(50), ReasonMember("mid"), Null, Number }

Texts == UNION { [1..k -> Tokens] : k \in 0..MaxLen }

ParseContents ==
    { pre \o t \o post : pre \in {<<>>, <<Prose>>}, post \in {<<>>, <<Prose>>}, t \in Texts }

ParseResponses ==
    { [err |-> TRUE,  choices |-> <<>>], [err |-> FALSE, choices |-> <<>>] }
    \cup { [err |-> FALSE, choices |-> <<content>>] : content \in ParseContents }

\* The job the worker holds, and the state in which it holds it: the call
\* CalculateMatchesAsync(u2, [u3]) has sent its first job, worker w1 has
\* received it and is inside CreateChatCompletion.
ParseJob == Job(Profile("u2"), Profile("u3"))

ParseInit ==
    /\ StoreInit /\ RedisInit /\ LockInit /\ AppInit
    /\ reply \in ParseResponses
    /\ jobs = <<>>
    /\ tasks = << [NewTask(Profile("u2"), <<Profile("u3")>>) EXCEPT
                      !.pc = "send2", !.sent = <<ParseJob>>] >>
    /\ workers = [w \in Workers |->
                     IF w = "w1" THEN [pc |-> "call", job |-> ParseJob]
                     ELSE [pc |-> "recv", job |-> NoJob]]
    /\ dequeued = Count(EmptyBag, ParseJob)
    /\ calls = Count(EmptyBag, ParseJob)
    /\ outcomes = NoOutcome
    /\ saturated = FALSE

ParseNext == \E w \in Workers, now \in WorkerTimes : WorkerReturn(w, reply, now)

SpecParse == ParseInit /\ [][ParseNext]_vars

-----------------------------------------------------------------------------
(* SpecService: the Service as its callers use it: LoadFromFile, GetMatch
   and GetTopMatches next to CalculateMatchesAsync and the workers *)

\* The seed files: one that is not JSON, and one with a record for a pair
\* the workers compute too and a record for a pair they do not.
ServiceSeeds ==
    { [readErr |-> FALSE, jsonErr |-> TRUE, matches |-> <<>>],
      [readErr |-> FALSE, jsonErr |-> FALSE,
       matches |-> <<Seed("u2", "u3", PLow), Seed("u2", "u4", PMid)>>] }

\* The calls: a primary with data and one without.
ServiceInputs == { <<"u2", <<"u3">>>>, <<"u1", <<"u2">>>> }

\* Service.LoadFromFile.
ServiceLoadFromFile(file, now) ==
    LET r == MemLoadFromFile(cache, file, now)
    IN  /\ cache' = r.cache
        /\ lastWrite' = IF r.err THEN lastWrite
                         ELSE RecordSeeds(lastWrite, file.matches, now)
        /\ obs' = [op |-> "load", file |-> file, now |-> now, err |-> r.err]
        /\ UNCHANGED pipeVars /\ UNCHANGED redisVars /\ UNCHANGED oracleVars /\ UNCHANGED appVars /\ UNCHANGED lockVars

\* Service.GetMatch.
ServiceReadMatch(viewerID, targetID) ==
    /\ obs' = [op |-> "get", viewer |-> viewerID, target |-> targetID,
               m |-> ServiceGetMatch(cache, viewerID, targetID)]
    /\ UNCHANGED <<cache, lastWrite>>
    /\ UNCHANGED pipeVars /\ UNCHANGED redisVars /\ UNCHANGED oracleVars /\ UNCHANGED appVars /\ UNCHANGED lockVars

\* Service.GetTopMatches.
ServiceReadTop(viewerID, n) ==
    /\ \E ret \in MemGetTopMatches(cache, viewerID, n) :
           obs' = [op |-> "top", viewer |-> viewerID, n |-> n, ret |-> ret]
    /\ UNCHANGED <<cache, lastWrite>>
    /\ UNCHANGED pipeVars /\ UNCHANGED redisVars /\ UNCHANGED oracleVars /\ UNCHANGED appVars /\ UNCHANGED lockVars

ServiceNext ==
    \/ \E in \in ServiceInputs :
           NotYetCalled(in) /\ CalculateMatchesAsync(Profile(in[1]), ProfileList(in[2]))
    \/ \E k \in DOMAIN tasks : TaskSend(k)
    \/ \E w \in Workers : WorkerReceive(w)
    \/ \E w \in Workers, resp \in Responses, now \in WorkerTimes : WorkerReturn(w, resp, now)
    \/ \E file \in ServiceSeeds, now \in Times : ServiceLoadFromFile(file, now)
    \/ ServiceReadMatch("u2", "u3")
    \/ ServiceReadTop("u2", 2)

SpecService == Init /\ [][ServiceNext]_vars

-----------------------------------------------------------------------------
(* SpecRetrigger: CalculateMatchesAsync called again for the same user, with
   the same or with a later snapshot of the profile, and an oracle whose
   answer is a function of the two profiles in the prompt *)

\* How many times CalculateMatchesAsync is called.
MaxCalls == 3

\* u2 as triggerMatching passes it before and after a content update.
OlderProfile == Profile("u2")
NewerProfile == [ID |-> "u2", Interests |-> "go, ai", Tweets |-> <<"new">>]

\* The score and the reason the oracle gives for a prompt: one answer for
\* each (viewer, candidate) input.
OracleAnswer(job) ==
    IF job.viewer = NewerProfile \/ job.candidate = NewerProfile THEN PHigh ELSE PMid

DetOracle(job) ==
    [err |-> FALSE,
     choices |-> << <<Prose, LBrace, ScoreMember(OracleAnswer(job).Score),
                      ReasonMember(OracleAnswer(job).Reason), RBrace>> >>]

\* A call is made once the goroutines of the earlier calls have sent their
\* jobs, so that the jobs of a later call are queued behind those of an
\* earlier one.
RetriggerNext ==
    \/ \E primary \in {OlderProfile, NewerProfile} :
           /\ Len(tasks) < MaxCalls
           /\ \A k \in DOMAIN tasks : tasks[k].pc = "done"
           /\ CalculateMatchesAsync(primary, <<Profile("u3")>>)
    \/ \E k \in DOMAIN tasks : TaskSend(k)
    \/ \E w \in Workers : WorkerReceive(w)
    \/ \E w \in Workers, now \in WorkerTimes : WorkerReturn(w, DetOracle(workers[w].job), now)

SpecRetrigger == Init /\ [][RetriggerNext]_vars

-----------------------------------------------------------------------------
(* SpecOrder: the pipeline with calls whose jobs all differ, so that every
   job in the queue can be told from every other *)

\* Two calls: one with two candidates, one with one and a primary without
\* data; no (viewer, candidate) pair occurs twice.
OrderInputs == { <<"u2", <<"u3", "u4">>>>, <<"u1", <<"u3">>>> }

OrderNext ==
    \/ \E in \in OrderInputs :
           NotYetCalled(in) /\ CalculateMatchesAsync(Profile(in[1]), ProfileList(in[2]))
    \/ \E k \in DOMAIN tasks : TaskSend(k)
    \/ \E w \in Workers : WorkerReceive(w)
    \/ \E w \in Workers, resp \in Responses, now \in WorkerTimes : WorkerReturn(w, resp, now)

SpecOrder == Init /\ [][OrderNext]_vars

-----------------------------------------------------------------------------
(* SpecSeed: MemoryStorage.LoadFromFile, one map assignment per step, next
   to a goroutine in UpdateMatch and one in GetTopMatches *)

\* The goroutine that loads, the one that writes and the one that reads.
SeedLoader == "p2"
SeedWriter == "p1"
SeedReader == "q1"

\* The mutex after an iteration of the loop of LoadFromFile: the Unlock is
\* deferred to the return.  LoadReleasesLock is the loop as it would be with
\* one UpdateMatch call per record.
LoadReleasesLock(m) == [m EXCEPT !.writer = ""]
LoadKeepsLock(m) == m

\* LoadFromFile up to its loop: os.ReadFile and json.Unmarshal, on whose
\* errors it returns, and s.mu.Lock().
LockLoadFromFile(p, file, now) ==
    /\ procs[p].pc = "idle"
    /\ IF file.readErr \/ file.jsonErr
       THEN /\ obs' = [op |-> "lload", err |-> TRUE, file |-> file,
                       before |-> cache, after |-> cache]
            /\ UNCHANGED <<cache, lastWrite, mu, procs>>
       ELSE /\ CanLock(mu)
            /\ mu' = [mu EXCEPT !.writer = p]
            /\ procs' = [procs EXCEPT ![p] =
                   [IdleProc EXCEPT !.pc = "insert", !.matches = file.matches,
                                    !.todo = DOMAIN file.matches,
                                    !.n = now, !.snap = cache]]
            /\ obs' = [op |-> "lload-start", file |-> file]
            /\ UNCHANGED <<cache, lastWrite>>
    /\ UNCHANGED pipeVars /\ UNCHANGED redisVars /\ UNCHANGED oracleVars /\ UNCHANGED appVars

\* One iteration of for _, m := range matches: the records in file order,
\* todo holding the indices still to come.
LockLoadInsert(p) ==
    LET pr == procs[p]
    IN  /\ pr.pc = "insert"
        /\ pr.todo # {}
        /\ LET i   == CHOOSE a \in pr.todo : \A b \in pr.todo : a <= b
               m   == pr.matches[i]
               res == [TargetID |-> m.TargetID, Score |-> m.Score,
                       Reason |-> m.Reason, Timestamp |-> pr.n]
           IN  /\ cache' = MemUpdateMatch(cache, m.ViewerID, m.TargetID, res)
               /\ lastWrite' = Record(lastWrite, <<m.ViewerID, m.TargetID>>, res)
               /\ procs' = [procs EXCEPT ![p].todo = pr.todo \ {i}]
        /\ mu' = LoadKeepsLock(mu)
        /\ UNCHANGED obs
        /\ UNCHANGED pipeVars /\ UNCHANGED redisVars /\ UNCHANGED oracleVars /\ UNCHANGED appVars

\* return nil, and the deferred Unlock.
LockLoadReturn(p) ==
    LET pr == procs[p]
    IN  /\ pr.pc = "insert"
        /\ pr.todo = {}
        /\ obs' = [op |-> "lload", err |-> FALSE,
                   file |-> [readErr |-> FALSE, jsonErr |-> FALSE, matches |-> pr.matches],
                   before |-> pr.snap, after |-> cache]
        /\ mu' = [mu EXCEPT !.writer = IF @ = p THEN "" ELSE @]
        /\ procs' = [procs EXCEPT ![p] = IdleProc]
        /\ UNCHANGED <<cache, lastWrite>>
        /\ UNCHANGED pipeVars /\ UNCHANGED redisVars /\ UNCHANGED oracleVars /\ UNCHANGED appVars

SeedNext ==
    \/ \E file \in SeedFiles, now \in Times : LockLoadFromFile(SeedLoader, file, now)
    \/ LockLoadInsert(SeedLoader)
    \/ LockLoadReturn(SeedLoader)
    \/ \E now \in Times : LockUpdateMatch(SeedWriter, "u1", "u3", PLow, now)
    \/ LockUpdateCheck(SeedWriter)
    \/ LockUpdateAssign(SeedWriter)
    \/ \E n \in {1, 2} : LockTopStart(SeedReader, "u1", n)
    \/ LockTopRange(SeedReader)
    \/ LockTopReturn(SeedReader)

SpecSeed == Init /\ [][SeedNext]_vars

-----------------------------------------------------------------------------
(* SpecUsers: the in-memory user store, upsert and get *)

\* The size limit of the user store.
UserLimit == 2

\* defaultScore(id): the first two bytes of the SHA-256 of the id, mod 1000,
\* in tenths of a point; 0 for the empty id.
DefaultScore(id) ==
    IF id = "" THEN 0
    ELSE ("u1" :> 2 @@ "u2" :> 810 @@ "u3" :> 286 @@ "u4" :> 849)[id]

\* The profiles the callers pass: one as the login handler builds it (no
\* score, no description) and one with both set.
UserProfiles ==
    { [ID |-> id, Username |-> "alice", Description |-> "", MatchingScore |-> 0] :
          id \in {"u1", "u2", "u3", "u4"} }
    \cup
    { [ID |-> id, Username |-> "", Description |-> "bio", MatchingScore |-> 700] :
          id \in {"u1", "u2", "u3", "u4"} }

\* upsert's defaults for the score and the description.
Normalised(u) ==
    LET u1 == IF u.MatchingScore = 0
              THEN [u EXCEPT !.MatchingScore = DefaultScore(u.ID)] ELSE u
    IN  IF u1.Description = "" /\ u1.Username # ""
        THEN [u1 EXCEPT !.Description = "X user @" \o u1.Username] ELSE u1

Restrict(f, S) == [x \in S |-> f[x]]

\* The maps the trimming loop of upsert can leave: for k := range s.data
\* deletes keys in the order the map iteration yields them, any order, until
\* the map is within the limit.  The key just written is one of them.
Evict(data, lim) ==
    IF Cardinality(DOMAIN data) <= lim THEN { data }
    ELSE { Restrict(data, DOMAIN data \ D) :
               D \in { E \in SUBSET DOMAIN data :
                           Cardinality(E) = Cardinality(DOMAIN data) - lim } }

\* userStore.upsert: the maps it can leave.
UserStoreUpsert(data, lim, u) ==
    LET u1 == Normalised(u)
    IN  Evict((u1.ID :> u1) @@ data, lim)

\* userStore.get.
UserStoreGet(data, userID) ==
    IF userID \in DOMAIN data THEN [ok |-> TRUE, user |-> data[userID]]
    ELSE [ok |-> FALSE, user |-> [ID |-> "", Username |-> "", Description |-> "",
                                  MatchingScore |-> 0]]

UserUpsert(u) ==
    /\ users' \in UserStoreUpsert(users, UserLimit, u)
    /\ obs' = [op |-> "upsert", user |-> u]
    /\ UNCHANGED <<cache, lastWrite>>
    /\ UNCHANGED <<states, clock, puts, pops>> /\ UNCHANGED tweetVars
    /\ UNCHANGED pipeVars /\ UNCHANGED redisVars /\ UNCHANGED <<reply>> /\ UNCHANGED lockVars

UserGet(userID) ==
    /\ obs' = [op |-> "uget", id |-> userID, ret |-> UserStoreGet(users, userID)]
    /\ UNCHANGED users
    /\ UNCHANGED <<cache, lastWrite>>
    /\ UNCHANGED <<states, clock, puts, pops>> /\ UNCHANGED tweetVars
    /\ UNCHANGED pipeVars /\ UNCHANGED redisVars /\ UNCHANGED <<reply>> /\ UNCHANGED lockVars

UsersNext ==
    \/ \E u \in UserProfiles : UserUpsert(u)
    \/ \E userID \in {"u1", "u2", "u3"} : UserGet(userID)

SpecUsers == Init /\ [][UsersNext]_vars

-----------------------------------------------------------------------------
(* SpecStates: the OAuth state store, put and pop under its mutex, with a
   clock that advances between calls and inside them *)

\* The lifetime of a state (10 minutes in the code), the last tick of the
\* clock and the number of put calls per state, in ticks and calls.
StateTTL == 2
MaxClock == 4
MaxPuts == 2

Verifiers == {"v1", "v2"}

\* time.Now() read a second time inside a call: the clock has not moved or
\* has moved on.
LaterTimes == { t \in {clock, clock + 1} : t <= MaxClock }

\* cleanupLocked: the entries that have not expired at now.
Cleanup(values, now) ==
    Restrict(values, { st \in DOMAIN values : ~(now > values[st].expiresAt) })

\* The map after pop found the entry: delete(s.values, state).  PopKeeps is
\* pop without the delete.
PopKeeps(values, state) == values
PopDeletes(values, state) == Restrict(values, DOMAIN values \ {state})

\* stateStore.put.
StatePut(state, verifier, later) ==
    /\ puts[state] < MaxPuts
    /\ states' = (state :> [verifier |-> verifier, expiresAt |-> later + StateTTL])
                     @@ Cleanup(states, clock)
    /\ clock' = later
    /\ puts' = [puts EXCEPT ![state] = @ + 1]
    /\ obs' = [op |-> "put", state |-> state, verifier |-> verifier]
    /\ UNCHANGED pops
    /\ UNCHANGED <<cache, lastWrite>>
    /\ UNCHANGED userVars /\ UNCHANGED tweetVars
    /\ UNCHANGED pipeVars /\ UNCHANGED redisVars /\ UNCHANGED <<reply>> /\ UNCHANGED lockVars

\* stateStore.pop, as handleXCallback calls it.
StatePop(state, later) ==
    LET values == Cleanup(states, clock)
    IN  /\ IF state \notin DOMAIN values
           THEN /\ states' = values
                /\ obs' = [op |-> "pop", state |-> state, ok |-> FALSE, verifier |-> "",
                           found |-> FALSE, at |-> later, expiresAt |-> 0]
                /\ UNCHANGED pops
           ELSE LET entry == values[state]
                    ok    == ~(later > entry.expiresAt)
                IN  /\ states' = PopDeletes(values, state)
                    /\ obs' = [op |-> "pop", state |-> state, ok |-> ok,
                               verifier |-> IF ok THEN entry.verifier ELSE "",
                               found |-> TRUE, at |-> later,
                               expiresAt |-> entry.expiresAt]
                    /\ pops' = IF ok THEN [pops EXCEPT ![state] = @ + 1] ELSE pops
        /\ clock' = later
        /\ UNCHANGED puts
        /\ UNCHANGED <<cache, lastWrite>>
        /\ UNCHANGED userVars /\ UNCHANGED tweetVars
        /\ UNCHANGED pipeVars /\ UNCHANGED redisVars /\ UNCHANGED <<reply>> /\ UNCHANGED lockVars

\* Time passes.
Tick ==
    /\ clock < MaxClock
    /\ clock' = clock + 1
    /\ UNCHANGED storeVars
    /\ UNCHANGED userVars /\ UNCHANGED stateVars /\ UNCHANGED tweetVars
    /\ UNCHANGED pipeVars /\ UNCHANGED redisVars /\ UNCHANGED <<reply>> /\ UNCHANGED lockVars

StatesNext ==
    \/ \E state \in OAuthStates, verifier \in Verifiers, later \in LaterTimes :
           StatePut(state, verifier, later)
    \/ \E state \in OAuthStates, later \in LaterTimes : StatePop(state, later)
    \/ Tick

SpecStates == Init /\ [][StatesNext]_vars

-----------------------------------------------------------------------------
(* SpecTweets: fetchUserTweets run by two goroutines, one step for
   shouldFetch, one for the start of the request and one for the response *)

\* The minimum interval between fetches (15 minutes in the code), in ticks.
FetchWindow == 2

FetchUsers == {"u1"}

\* How a request to the feed API ends: http.DefaultClient.Do fails, the
\* status is not 200, the body is not JSON, or the tweets arrive.
FetchOutcomes == {"transport", "status", "badjson", "ok"}

\* tweetStore.shouldFetch.
ShouldFetch(last, userID, now, minInterval) ==
    IF userID = "" THEN FALSE
    ELSE IF userID \notin DOMAIN last THEN TRUE
    ELSE now - last[userID] > minInterval

\* tweetStore.set, as far as lastFetched goes.
TweetSet(last, userID, now) ==
    IF userID = "" THEN last ELSE (userID :> now) @@ last

\* fetchUserTweets up to the return after shouldFetch.
FetchCheck(f, userID) ==
    /\ fetchers[f].pc = "idle"
    /\ IF ShouldFetch(lastFetched, userID, clock, FetchWindow)
       THEN /\ fetchers' = [fetchers EXCEPT ![f] = [pc |-> "start", user |-> userID]]
            /\ obs' = [op |-> "fetch", user |-> userID, by |-> f]
       ELSE /\ UNCHANGED fetchers
            /\ obs' = [op |-> "fetch-skip", user |-> userID, by |-> f]
    /\ UNCHANGED <<lastFetched, requests>>
    /\ UNCHANGED <<cache, lastWrite>>
    /\ UNCHANGED userVars /\ UNCHANGED stateVars /\ UNCHANGED clock
    /\ UNCHANGED pipeVars /\ UNCHANGED redisVars /\ UNCHANGED <<reply>> /\ UNCHANGED lockVars

\* http.DefaultClient.Do(req): the request leaves.
FetchRequest(f) ==
    /\ fetchers[f].pc = "start"
    /\ fetchers' = [fetchers EXCEPT ![f].pc = "wait"]
    /\ requests' = requests \cup { [user |-> fetchers[f].user, at |-> clock, by |-> f] }
    /\ UNCHANGED lastFetched
    /\ UNCHANGED storeVars
    /\ UNCHANGED userVars /\ UNCHANGED stateVars /\ UNCHANGED clock
    /\ UNCHANGED pipeVars /\ UNCHANGED redisVars /\ UNCHANGED <<reply>> /\ UNCHANGED lockVars

\* fetchUserTweets from the response on: s.tweets.set on a status other than
\* 200 and on success, a plain return on the two errors.
FetchResponse(f, outcome) ==
    /\ fetchers[f].pc = "wait"
    /\ lastFetched' = IF outcome \in {"status", "ok"}
                      THEN TweetSet(lastFetched, fetchers[f].user, clock)
                      ELSE lastFetched
    /\ fetchers' = [fetchers EXCEPT ![f] = IdleFetcher]
    /\ obs' = [op |-> "fetched", user |-> fetchers[f].user, by |-> f,
               outcome |-> outcome]
    /\ UNCHANGED requests
    /\ UNCHANGED <<cache, lastWrite>>
    /\ UNCHANGED userVars /\ UNCHANGED stateVars /\ UNCHANGED clock
    /\ UNCHANGED pipeVars /\ UNCHANGED redisVars /\ UNCHANGED <<reply>> /\ UNCHANGED lockVars

\* Time passes.  The history keeps the requests that a later one can still
\* be within a window of.
FetchTick ==
    /\ clock < MaxClock
    /\ clock' = clock + 1
    /\ requests' = { r \in requests : clock' - r.at <= FetchWindow }
    /\ UNCHANGED <<lastFetched, fetchers>>
    /\ UNCHANGED storeVars
    /\ UNCHANGED userVars /\ UNCHANGED stateVars
    /\ UNCHANGED pipeVars /\ UNCHANGED redisVars /\ UNCHANGED <<reply>> /\ UNCHANGED lockVars

TweetsNext ==
    \/ \E f \in Fetchers, userID \in FetchUsers : FetchCheck(f, userID)
    \/ \E f \in Fetchers : FetchRequest(f)
    \/ \E f \in Fetchers, outcome \in FetchOutcomes : FetchResponse(f, outcome)
    \/ FetchTick

SpecTweets == Init /\ [][TweetsNext]_vars

-----------------------------------------------------------------------------
(* Properties of the in-process store (SpecStore) *)

Min(a, b) == IF a < b THEN a ELSE b

\* The results stored under a viewer, and how many there are.
Stored(c, viewerID) ==
    IF viewerID \in DOMAIN c THEN { c[viewerID][t] : t \in DOMAIN c[viewerID] } ELSE {}
CountOf(c, viewerID) ==
    IF viewerID \in DOMAIN c THEN Cardinality(DOMAIN c[viewerID]) ELSE 0

\* ret is a top-n answer for store c: min(n, count) stored results, in
\* descending order (strictly descending when strict), none of the results
\* left out scoring higher than a returned one.
TopAnswer(c, viewerID, n, ret, strict) ==
    /\ ~ret.panic
    /\ Len(ret.out) = Min(n, CountOf(c, viewerID))
    /\ \A i \in DOMAIN ret.out : ret.out[i] \in Stored(c, viewerID)
    /\ \A i, j \in DOMAIN ret.out :
           i < j => IF strict THEN ret.out[i].Score > ret.out[j].Score
                              ELSE ret.out[i].Score >= ret.out[j].Score
    /\ \A m \in Stored(c, viewerID) :
           (\A i \in DOMAIN ret.out : ret.out[i] # m)
               => \A i \in DOMAIN ret.out : m.Score <= ret.out[i].Score

\* TestService_GetTopMatches: c1:50, c2:90, c3:10, c4:75 under v1.
ExampleResult(t, score) == [TargetID |-> t, Score |-> score, Reason |-> "", Timestamp |-> 0]
ExampleCache ==
    MemUpdateMatch(
        MemUpdateMatch(
            MemUpdateMatch(
                MemUpdateMatch(EmptyCache, "v1", "c1", ExampleResult("c1", 50)),
                "v1", "c2", ExampleResult("c2", 90)),
            "v1", "c3", ExampleResult("c3", 10)),
        "v1", "c4", ExampleResult("c4", 75))
ExampleTop3 ==
    \A ret \in MemGetTopMatches(ExampleCache, "v1", 3) :
        /\ ~ret.panic
        /\ [i \in DOMAIN ret.out |-> ret.out[i].TargetID] = <<"c2", "c4", "c1">>

C9_LastWriteWins ==
    /\ \A pr \in Pairs :
           /\ MemGetMatch(cache, pr[1], pr[2]).ok = Written(pr)
           /\ ServiceGetMatch(cache, pr[1], pr[2]) = LastWritten(pr)
    /\ \A viewerID \in IDs :
           \A ret \in MemGetTopMatches(cache, viewerID, Cardinality(IDs)) :
               /\ Len(ret.out) = Cardinality({ t \in IDs : Written(<<viewerID, t>>) })
               /\ \A t \in IDs :
                      Written(<<viewerID, t>>)
                          => Cardinality({ i \in DOMAIN ret.out :
                                             ret.out[i] = lastWrite[<<viewerID, t>>] }) = 1
    /\ obs.op = "update" => ServiceGetMatch(cache, obs.viewer, obs.target) = obs.m

\* UpdateMatch has just replaced a different result of the pair by one whose
\* score is outside [0,100], and GetMatch returns the new one.
C9_Witness ==
    /\ obs.op = "update" /\ obs.hadPrev /\ obs.prev # obs.m
    /\ obs.m.Score > 100
    /\ ServiceGetMatch(cache, obs.viewer, obs.target) = obs.m

\* C24: no step deletes a result.  A pair for which GetMatch returns a
\* stored result has one after every step, so GetMatch returns a stored
\* result for every pair ever written; and the number of entries of a viewer
\* never goes down.
C24_NeverDeleted ==
    /\ [](\A pr \in Pairs :
              Written(pr) => /\ MemGetMatch(cache, pr[1], pr[2]).ok
                             /\ ServiceGetMatch(cache, pr[1], pr[2]) # ZeroResult)
    /\ [][/\ \A pr \in Pairs :
                 MemGetMatch(cache, pr[1], pr[2]).ok => MemGetMatch(cache', pr[1], pr[2]).ok
          /\ \A viewerID \in IDs : CountOf(cache', viewerID) >= CountOf(cache, viewerID)
         ]_vars

\* A seed file was loaded over a store that held a pair the file does not
\* name, and the pair is still there, with the viewer's other entries.
C24_Witness ==
    /\ obs.op = "load" /\ ~obs.err
    /\ Written(<<"u1", "u2">>)
    /\ MemGetMatch(cache, "u1", "u2").ok
    /\ CountOf(cache, "u1") = 3
    /\ MemGetMatch(cache, "u2", "u1").ok

\* C21: on an unchanged store GetTopMatches(viewer, n) has one possible
\* answer for every viewer and every n >= 0, and a call that follows a call
\* with the same (viewer, n) without a write in between returns the sequence
\* the first one returned: the same results in the same order, also where
\* scores are equal and where n cuts through a run of equal scores.
C21_TopMatchesDeterministic ==
    /\ [](\A viewerID \in IDs, n \in 0..MaxN :
              Cardinality(MemGetTopMatches(cache, viewerID, n)) = 1)
    /\ [][(/\ obs.op = "top" /\ obs'.op = "top"
           /\ obs'.viewer = obs.viewer /\ obs'.n = obs.n /\ obs.n >= 0
           /\ cache' = cache)
              => obs'.ret = obs.ret]_vars

\* C35: GetTopMatches(viewer, n) of the in-process store completes without
\* a runtime failure for every integer n, n < 0 included, on a viewer that
\* has stored results, and for n < 0 it returns an empty list.
C35_NegativeLimitCompletes ==
    /\ \A v \in DOMAIN cache : \A n \in -1..MaxN :
           \A ret \in MemGetTopMatches(cache, v, n) :
               /\ ~ret.panic
               /\ n < 0 => ret.out = <<>>
    /\ obs.op = "top" => ~obs.ret.panic

-----------------------------------------------------------------------------
(* Properties of the pipeline (Spec) *)

\* How often job j occurs in bag b and in sequence q.
InBag(b, j) == IF j \in DOMAIN b THEN b[j] ELSE 0
InSeq(q, j) == Cardinality({ i \in DOMAIN q : q[i] = j })

RECURSIVE SentBy(_, _)
SentBy(k, j) == IF k = 0 THEN 0 ELSE InSeq(tasks[k].sent, j) + SentBy(k - 1, j)

\* The viewer has at least one tweet or a non-empty interests string.
HasData(p) == Len(p.Tweets) >= 1 \/ p.Interests # ""

\* The jobs a call is to enqueue: for each list element other than the
\* primary, in list order, (primary, c) and then (c, primary).
RECURSIVE ExpectedJobs(_, _)
ExpectedJobs(primary, candidates) ==
    IF candidates = <<>> THEN <<>>
    ELSE LET c == Head(candidates)
         IN  (IF c.ID # primary.ID THEN <<Job(primary, c), Job(c, primary)>> ELSE <<>>)
             \o ExpectedJobs(primary, Tail(candidates))

IsPrefix(p, q) == Len(p) <= Len(q) /\ p = SubSeq(q, 1, Len(p))

FailureKinds == {"nosignal", "transport", "nochoices", "unparseable"}

\* C2: a step in which a worker's job ends in a failure (no signal,
\* transport error, no choices, unparseable text) leaves the store as it was:
\* GetMatch and GetTopMatches answer after it as before it, for every pair.
C2_FailedJobLeavesStore ==
    [][ (outcomes'.n = outcomes.n + 1 /\ outcomes'.kind \in FailureKinds)
            => /\ cache' = cache
               /\ \A pr \in Pairs :
                      ServiceGetMatch(cache', pr[1], pr[2]) = ServiceGetMatch(cache, pr[1], pr[2])
               /\ \A viewerID \in IDs, n \in 0..MaxN :
                      MemGetTopMatches(cache', viewerID, n) = MemGetTopMatches(cache, viewerID, n)
      ]_vars

\* A job has just failed on an unparseable answer while a result of an
\* earlier computation is stored for its pair, and that result is still there.
C2_Witness ==
    /\ outcomes.kind = "unparseable"
    /\ Written(<<outcomes.job.viewer.ID, outcomes.job.candidate.ID>>)
    /\ ServiceGetMatch(cache, outcomes.job.viewer.ID, outcomes.job.candidate.ID)
           = lastWrite[<<outcomes.job.viewer.ID, outcomes.job.candidate.ID>>]

\* C3: the oracle is called once for every dequeued job whose viewer has a
\* tweet or interests, and never for a job whose viewer has neither,
\* whatever the candidate is.
C3_NoSignalNoOracleCall ==
    /\ \A j \in DOMAIN calls : HasData(j.viewer)
    /\ \A j \in DOMAIN dequeued :
           InBag(calls, j) = IF HasData(j.viewer) THEN dequeued[j] ELSE 0
    /\ DOMAIN calls \subseteq DOMAIN dequeued

\* A job of a viewer without data and a candidate with data was dequeued,
\* another job reached the oracle.
C3_Witness ==
    /\ \E j \in DOMAIN dequeued : ~HasData(j.viewer) /\ HasData(j.candidate)
    /\ \E j \in DOMAIN calls : calls[j] >= 1
    /\ outcomes.kind = "nosignal"

\* C4: a call enqueues, in list order, (primary, c) and (c, primary) for
\* every list element c other than the primary and nothing else: what a task
\* has sent is a prefix of that list, all of it once the task is done, and
\* its length is twice the number of such elements.
C4_TwoJobsPerCandidate ==
    \A k \in DOMAIN tasks :
        LET t == tasks[k]
            e == ExpectedJobs(t.primary, t.candidates)
        IN  /\ Len(e) = 2 * Cardinality({ i \in DOMAIN t.candidates :
                                            t.candidates[i].ID # t.primary.ID })
            /\ IsPrefix(t.sent, e)
            /\ t.pc \in {"send1", "send2", "done"}
            /\ t.pc = "done" <=> t.sent = e

\* The call whose list of three holds the primary itself is done: four jobs.
C4_Witness ==
    \E k \in DOMAIN tasks :
        /\ tasks[k].pc = "done"
        /\ Len(tasks[k].candidates) = 3
        /\ Len(tasks[k].sent) = 4

\* C5: no job with viewer.ID = candidate.ID is in the queue, held by a
\* worker or was ever dequeued.
C5_NoSelfJobs ==
    /\ \A i \in DOMAIN jobs : jobs[i].viewer.ID # jobs[i].candidate.ID
    /\ \A w \in Workers :
           workers[w].pc = "call" => workers[w].job.viewer.ID # workers[w].job.candidate.ID
    /\ \A j \in DOMAIN dequeued : j.viewer.ID # j.candidate.ID
    /\ \A k \in DOMAIN tasks : \A i \in DOMAIN tasks[k].sent :
           tasks[k].sent[i].viewer.ID # tasks[k].sent[i].candidate.ID

\* A call whose list holds the primary is done and all its jobs were dequeued.
C5_Witness ==
    /\ \E k \in DOMAIN tasks :
           /\ tasks[k].pc = "done"
           /\ \E i \in DOMAIN tasks[k].candidates :
                  tasks[k].candidates[i].ID = tasks[k].primary.ID
           /\ Len(tasks[k].sent) >= 2
    /\ jobs = <<>>
    /\ \A w \in Workers : workers[w].pc = "recv"

\* C6: a call with an empty list sends nothing and its task is done at once,
\* whatever the state of the queue; while only such calls were made there is
\* no job, no oracle call and no store write.
C6_EmptyListDoesNothing ==
    /\ \A k \in DOMAIN tasks :
           tasks[k].candidates = <<>> => tasks[k].pc = "done" /\ tasks[k].sent = <<>>
    /\ (\A k \in DOMAIN tasks : tasks[k].candidates = <<>>)
           => /\ jobs = <<>>
              /\ dequeued = EmptyBag
              /\ calls = EmptyBag
              /\ outcomes = NoOutcome
              /\ cache = EmptyCache
              /\ lastWrite = NoWrites

\* The only call so far had an empty list.
C6_Witness ==
    /\ Len(tasks) = 1
    /\ tasks[1].candidates = <<>>
    /\ tasks[1].pc = "done"

\* C7: CalculateMatchesAsync can complete in every state, for every input:
\* also when the queue is full and every worker is inside an oracle call.
C7_CallerNeverBlocks ==
    \A in \in CallInputs :
        ENABLED CalculateMatchesAsync(Profile(in[1]), ProfileList(in[2]))

\* A call has returned in a state with the queue full and all workers busy.
C7_Witness == saturated

\* C8: the queue never holds more than its capacity, and no job is dropped
\* or put on twice: what a task has sent is a prefix of what it is to send,
\* and every job is in the queue or was dequeued as often as tasks sent it.
C8_QueueBoundedNoLoss ==
    /\ Len(jobs) <= QueueCap
    /\ \A k \in DOMAIN tasks :
           IsPrefix(tasks[k].sent, ExpectedJobs(tasks[k].primary, tasks[k].candidates))
    /\ \A v \in IDs, c \in IDs :
           LET j == Job(Profile(v), Profile(c))
           IN  SentBy(Len(tasks), j) = InBag(dequeued, j) + InSeq(jobs, j)

\* The queue is full and a task waits at a send.
C8_Witness ==
    /\ Len(jobs) = QueueCap
    /\ \E k \in DOMAIN tasks : tasks[k].pc \in {"send1", "send2"}

\* Nothing is queued and every worker waits at the channel.
Drained == jobs = <<>> /\ \A w \in Workers : workers[w].pc = "recv"

\* C14: whatever way a job ends, the worker that ran it is back at the
\* channel; every worker started is alive in every state; and, under
\* FairSpec, again and again the queue is empty with every worker waiting:
\* every job queued, also after a failed one, is dequeued and processed.
C14_WorkersSurviveFailures ==
    /\ [](\A w \in Workers : workers[w].pc \in {"recv", "call"})
    /\ [][\A w \in Workers :
              (workers[w].pc = "call" /\ workers'[w].pc # "call") => workers'[w].pc = "recv"]_vars
    /\ [][outcomes'.n = outcomes.n + 1 =>
              \E w \in Workers : workers'[w].pc = "recv" /\ workers'[w].job = NoJob]_vars
    /\ []<>Drained

\* The only call so far was for a primary without data and one candidate:
\* its first job failed for want of data, its second one, queued behind it,
\* has since been processed with success.
C14_Witness ==
    /\ Len(tasks) = 1
    /\ tasks[1].primary.ID = "u1"
    /\ Job(Profile("u1"), Profile("u2")) \in DOMAIN dequeued
    /\ outcomes.n = 2
    /\ outcomes.kind = "ok"
    /\ outcomes.job = Job(Profile("u2"), Profile("u1"))
    /\ Drained

\* The number of elements of bag b.
RECURSIVE BagSize(_)
BagSize(b) ==
    IF DOMAIN b = {} THEN 0
    ELSE LET j == CHOOSE x \in DOMAIN b : TRUE
         IN  b[j] + BagSize([x \in DOMAIN b \ {j} |-> b[x]])

\* C15: there is no retry.  A job is dequeued no more often than it was
\* sent and handed to the oracle no more often than it was dequeued; every
\* dequeued job is held by one worker or has ended once; the step that ends
\* a job puts nothing on the queue; and the store changes only in a step
\* that ends one job with success, and then only for that job's pair.
C15_NoRetry ==
    /\ [](/\ \A j \in DOMAIN dequeued :
                 /\ dequeued[j] <= SentBy(Len(tasks), j)
                 /\ InBag(calls, j) <= dequeued[j]
          /\ BagSize(dequeued)
                 = outcomes.n + Cardinality({ w \in Workers : workers[w].pc = "call" }))
    /\ [][outcomes'.n # outcomes.n =>
              /\ outcomes'.n = outcomes.n + 1
              /\ jobs' = jobs \/ (jobs # <<>> /\ jobs' = Tail(jobs))
              /\ InSeq(jobs', outcomes'.job) <= InSeq(jobs, outcomes'.job)]_vars
    /\ [][(cache' # cache \/ lastWrite' # lastWrite) =>
              /\ outcomes'.n = outcomes.n + 1
              /\ outcomes'.kind = "ok"
              /\ \A pr \in Pairs :
                     pr # <<outcomes'.job.viewer.ID, outcomes'.job.candidate.ID>> =>
                         ServiceGetMatch(cache', pr[1], pr[2]) = ServiceGetMatch(cache, pr[1], pr[2])]_vars

\* A job has ended in an oracle error; it was dequeued once, handed to the
\* oracle once, and is not on the queue.
C15_Witness ==
    /\ outcomes.kind = "transport"
    /\ InBag(dequeued, outcomes.job) = 1
    /\ InBag(calls, outcomes.job) = 1
    /\ InSeq(jobs, outcomes.job) = 0
    /\ ~Written(<<outcomes.job.viewer.ID, outcomes.job.candidate.ID>>)
    /\ \A k \in DOMAIN tasks : tasks[k].pc = "done"
    /\ Drained

\* CalculateMatchesAsync was called with the input in.
Called(in) ==
    \E k \in DOMAIN tasks :
        tasks[k].primary = Profile(in[1]) /\ tasks[k].candidates = ProfileList(in[2])

\* The score and the reason the oracle's answers carry.
Answers ==
    { <<r.choices[1][CHOOSE i \in DOMAIN r.choices[1] : r.choices[1][i].t = "score"].v,
        r.choices[1][CHOOSE i \in DOMAIN r.choices[1] : r.choices[1][i].t = "reason"].s>> :
      r \in GoodResponses }

\* GetMatch(viewerID, targetID) returns a result a worker computed for the
\* pair from an answer of the oracle.
Materialized(viewerID, targetID) ==
    LET m == ServiceGetMatch(cache, viewerID, targetID)
    IN  /\ Written(<<viewerID, targetID>>)
        /\ m = lastWrite[<<viewerID, targetID>>]
        /\ m.TargetID = targetID
        /\ <<m.Score, m.Reason>> \in Answers
        /\ m.Timestamp \in WorkerTimes

\* Every list element of the input in other than its primary is materialized.
AllMaterialized(in) ==
    { i \in DOMAIN in[2] : in[2][i] # in[1] /\ ~Materialized(in[1], in[2][i]) } = {}

\* C16: under SpecGoodOracle (well-formed answers, fair scheduling), once
\* CalculateMatchesAsync(primary, candidates) was called for a primary with
\* tweets or interests, GetMatch(primary.ID, c.ID) eventually returns a
\* computed score and reason for every candidate c other than the primary.
C16_ResultsMaterialize ==
    \A in \in { x \in CallInputs : HasData(Profile(x[1])) } :
        Called(in) ~> AllMaterialized(in)

\* The call for u2 with the list u1, u2, u3 was made and both its results
\* can be read.
C16_Witness ==
    /\ Called(<<"u2", <<"u1", "u2", "u3">>>>)
    /\ Materialized("u2", "u1")
    /\ Materialized("u2", "u3")
    /\ ~Written(<<"u2", "u2">>)

\* How many dequeued jobs ended before any oracle call, for want of data.
EndedWithoutCall ==
    BagSize([j \in { x \in DOMAIN dequeued : NoSignal(x.viewer, x.candidate) } |-> dequeued[j]])

\* The oracle calls in flight: those started less those that have returned.
InFlight == BagSize(calls) - (outcomes.n - EndedWithoutCall)

\* C22: the number of oracle calls in flight never exceeds the number of
\* workers, however many calls of CalculateMatchesAsync are active and
\* however full the queue is; every call in flight is the one call of a
\* worker that is inside callAI.
C22_OracleCallsBounded ==
    /\ InFlight >= 0
    /\ InFlight <= Cardinality(Workers)
    /\ InFlight = Cardinality({ w \in Workers : workers[w].pc = "call" })

\* Every worker is inside an oracle call while the queue is full and two
\* calls have put jobs on it.
C22_Witness ==
    /\ InFlight = Cardinality(Workers)
    /\ Len(jobs) = QueueCap
    /\ Cardinality({ k \in DOMAIN tasks : tasks[k].sent # <<>> }) >= 2

\* How many jobs the first k calls have sent.
RECURSIVE SentTotal(_)
SentTotal(k) == IF k = 0 THEN 0 ELSE Len(tasks[k].sent) + SentTotal(k - 1)

\* Every call made so far has sent all its jobs.
AllSent ==
    \A k \in DOMAIN tasks :
        /\ tasks[k].pc = "done"
        /\ tasks[k].sent = ExpectedJobs(tasks[k].primary, tasks[k].candidates)

\* Every job sent so far has been dequeued and has ended.
AllProcessed ==
    /\ Drained
    /\ BagSize(dequeued) = SentTotal(Len(tasks))
    /\ outcomes.n = SentTotal(Len(tasks))

\* A goroutine waits at a send, a job is queued or a worker is inside callAI.
WorkLeft ==
    \/ \E k \in DOMAIN tasks : tasks[k].pc \in {"send1", "send2"}
    \/ jobs # <<>>
    \/ \E w \in Workers : workers[w].pc = "call"

\* C32: the pipeline cannot deadlock.  While a goroutine waits to send, a
\* job is queued or an oracle call is out, a sender, a receiver or a
\* returning call can take a step; and, with every oracle call returning
\* and fair scheduling (FairSpec), again and again every call made has sent
\* all its jobs and every job sent has been processed.
C32_PipelineNeverDeadlocks ==
    /\ [](WorkLeft =>
              ENABLED (\/ \E k \in DOMAIN tasks : TaskSend(k)
                       \/ \E w \in Workers : WorkerReceive(w)
                       \/ \E w \in Workers, resp \in Responses, now \in WorkerTimes :
                              WorkerReturn(w, resp, now)))
    /\ []<>(AllSent /\ AllProcessed)

\* The queue is full and the goroutines of two calls wait at a send.
C32_Witness ==
    /\ Len(jobs) = QueueCap
    /\ Cardinality({ k \in DOMAIN tasks : tasks[k].pc \in {"send1", "send2"} }) >= 2

-----------------------------------------------------------------------------
(* Properties of the in-process store under concurrency (SpecLock) *)

\* The goroutine is between the locking and the unlocking of the mutex.
Inside(p) == procs[p].pc # "idle"

\* C17: no goroutine is inside the map while a writer is, so at most one
\* writer modifies it at a time and never under a reader; the map a reader
\* ranges over is the map as it was when the reader entered; and every list
\* GetTopMatches has returned is a top-n answer for a state the store was in.
C17_MapAccessRaceFree ==
    /\ \A p \in LockWriters : Inside(p) => \A q \in LockProcs \ {p} : ~Inside(q)
    /\ \A q \in LockReaders : Inside(q) => cache = procs[q].snap
    /\ obs.op = "ltop" =>
           /\ ~obs.ret.panic
           /\ obs.ret \in MemGetTopMatches(obs.snap, obs.viewer, obs.n)

\* Two readers are inside at once, and the last list returned, of two
\* results, was read from a store state that a writer has since changed.
C17_Witness ==
    /\ \A q \in LockReaders : Inside(q)
    /\ obs.op = "ltop"
    /\ Len(obs.ret.out) = 2
    /\ obs.snap # cache

-----------------------------------------------------------------------------
(* Properties of callAI's parsing (SpecParse) *)

\* From its first '{' to its last '}' the text is an object that carries a
\* score member and a reason member, and nothing else.
ShapedObject(content) ==
    \E a, b \in DOMAIN content :
        /\ content[a].t = "{" /\ \A i \in 1..(a - 1) : content[i].t # "{"
        /\ content[b].t = "}" /\ \A i \in (b + 1)..Len(content) : content[i].t # "}"
        /\ a < b
        /\ \A i \in (a + 1)..(b - 1) : content[i].t \in {"score", "reason"}
        /\ \E i \in (a + 1)..(b - 1) : content[i].t = "score"
        /\ \E i \in (a + 1)..(b - 1) : content[i].t = "reason"

\* The text has no '{' before a later '}'.
NoBracePair(content) ==
    ~\E a, b \in DOMAIN content : a < b /\ content[a].t = "{" /\ content[b].t = "}"

\* The worker has dropped its job and written nothing.
Dropped ==
    /\ outcomes.kind \in FailureKinds
    /\ cache = EmptyCache
    /\ lastWrite = NoWrites

\* C18: when the oracle's answer is anything but a text that, from its first
\* '{' to its last '}', is an object with a score and a reason (an error, no
\* choices, no bracket pair, unparseable text, an object without a score, a
\* JSON value that is not an object), the job is dropped and nothing is
\* written.
C18_OnlyShapedAnswersWritten ==
    outcomes.n = 1 =>
        (~(/\ ~reply.err
           /\ Len(reply.choices) >= 1
           /\ ShapedObject(reply.choices[1]))
            => Dropped)

\* The value of the last member of kind key in the text.
LastValue(content, key) ==
    content[CHOOSE i \in DOMAIN content :
                /\ content[i].t = key
                /\ \A j \in DOMAIN content : content[j].t = key => j <= i]

\* C19: for a text that is a {score, reason} object with nothing but
\* brace-free prose before and after it, the worker stores the object's
\* score and reason; for a text with no '{' before a later '}' callAI
\* returns a failure, and the job is dropped.
C19_ExtractionTransparent ==
    (outcomes.n = 1 /\ ~reply.err /\ Len(reply.choices) >= 1) =>
        LET content == reply.choices[1]
        IN  /\ IsAnswer(content) =>
                   /\ outcomes.kind = "ok"
                   /\ \E now \in WorkerTimes :
                          ServiceGetMatch(cache, "u2", "u3")
                              = [TargetID |-> "u3",
                                 Score |-> LastValue(content, "score").v,
                                 Reason |-> LastValue(content, "reason").s,
                                 Timestamp |-> now]
            /\ NoBracePair(content) => Dropped

-----------------------------------------------------------------------------
(* Properties of the Redis backend (SpecRedis) *)

\* The weight under which the ranking of viewerID holds targetID.
Ranked(zs, viewerID, targetID) ==
    RankKey(viewerID) \in DOMAIN zs /\ targetID \in DOMAIN zs[RankKey(viewerID)]

\* C10: in every state a reader can come upon, the point entry and the
\* ranking of a viewer agree: a result GetMatch(v, t) returns is in
\* GetTopMatches(v, n) for n at least the viewer's entry count and is ranked
\* by its own score, the list is in descending score order, and a target
\* the ranking holds has a point entry.
C10_UpdateAtomicForReaders ==
    \A viewerID \in IDs :
        LET top == RedisGetTopMatches(rkv, rzset, viewerID, Cardinality(IDs))
        IN  /\ \A targetID \in IDs :
                   LET g == RedisGetMatch(rkv, viewerID, targetID)
                   IN  /\ g.ok => /\ \E i \in DOMAIN top : top[i] = g.m
                                  /\ Ranked(rzset, viewerID, targetID)
                                  /\ rzset[RankKey(viewerID)][targetID] = g.m.Score
                       /\ Ranked(rzset, viewerID, targetID) => g.ok
            /\ \A i, j \in DOMAIN top : i < j => top[i].Score >= top[j].Score

\* C20: in every state of the Redis backend GetTopMatches(viewer, n)
\* returns at most n results, for every n from 0 on; for n = 0 none.
C20_RedisTopAtMostN ==
    /\ \A viewerID \in IDs, n \in 0..MaxN :
           Len(RedisGetTopMatches(rkv, rzset, viewerID, n)) <= n
    /\ obs.op = "rtop" => Len(obs.ret.out) <= obs.n

\* No caller is inside UpdateMatch.
NoUpdateInProgress == \A c \in RedisWriters : rclients[c].pc = "idle"

\* C27: whenever no UpdateMatch is in progress the ranking agrees with the
\* point records: for every viewer the members of the sorted set are the
\* targets that have a point record, and the weight of each member is the
\* score of its point record; also after two callers have updated one pair
\* at the same time.
C27_RankingConsistentAtRest ==
    NoUpdateInProgress =>
        \A viewerID \in IDs, targetID \in IDs :
            LET g == RedisGetMatch(rkv, viewerID, targetID)
            IN  /\ Ranked(rzset, viewerID, targetID) <=> g.ok
                /\ g.ok => rzset[RankKey(viewerID)][targetID] = g.m.Score

\* C28: every list a GetTopMatches call of the Redis backend has returned,
\* whatever UpdateMatch commands ran between its ZREVRANGE and its GETs, is
\* in descending order of the Score of the records in it.
C28_RedisTopDescending ==
    obs.op = "rtop" =>
        \A i, j \in DOMAIN obs.ret.out :
            i < j => obs.ret.out[i].Score >= obs.ret.out[j].Score

-----------------------------------------------------------------------------
(* Properties of the two backends side by side (SpecBoth) *)

\* The two backends give the same answers to GetMatch for every pair and to
\* GetTopMatches for every viewer and every n from lo to MaxN; of results of
\* equal score the Redis backend may return any the in-process one can.
SameAnswers(lo) ==
    \A viewerID \in IDs :
        /\ \A targetID \in IDs :
               /\ RedisGetMatch(rkv, viewerID, targetID) = MemGetMatch(cache, viewerID, targetID)
               /\ ServiceGetMatchRedis(rkv, viewerID, targetID)
                      = ServiceGetMatch(cache, viewerID, targetID)
        /\ \A n \in lo..MaxN :
               Returned(RedisGetTopMatches(rkv, rzset, viewerID, n))
                   \in MemGetTopMatches(cache, viewerID, n)

\* C11: after the same completed UpdateMatch and LoadFromFile operations the
\* in-process and the Redis backend return the same results from GetMatch
\* and from GetTopMatches, for every viewer, target and n >= 0 (up to the
\* order of equal scores).
C11_BackendsEquivalent == SameAnswers(0)

\* The last record of file f for the pair of its i-th record.
LastRecord(f, i) ==
    LET js == { j \in DOMAIN f : f[j].ViewerID = f[i].ViewerID /\ f[j].TargetID = f[i].TargetID }
    IN  f[CHOOSE j \in js : \A k \in js : k <= j]

NeverWritten(viewerID) == \A targetID \in IDs : ~Written(<<viewerID, targetID>>)

\* C13: for a pair that no write has stored a result for, GetMatch returns
\* the zero MatchResult, and for a viewer without any stored result
\* GetTopMatches returns an empty list, whatever n is: on both backends, in
\* every state, and no such read panics.
C13_AbsenceIsEmpty ==
    /\ \A viewerID \in IDs :
           /\ \A targetID \in IDs :
                  ~Written(<<viewerID, targetID>>) =>
                      /\ MemGetMatch(cache, viewerID, targetID) = [m |-> ZeroResult, ok |-> FALSE]
                      /\ ServiceGetMatch(cache, viewerID, targetID) = ZeroResult
                      /\ RedisGetMatch(rkv, viewerID, targetID) = [m |-> ZeroResult, ok |-> FALSE]
                      /\ ServiceGetMatchRedis(rkv, viewerID, targetID) = ZeroResult
           /\ NeverWritten(viewerID) =>
                  \A n \in -1..MaxN :
                      /\ MemGetTopMatches(cache, viewerID, n) = { Returned(<<>>) }
                      /\ RedisGetTopMatches(rkv, rzset, viewerID, n) = <<>>
    /\ (obs.op = "get" /\ ~Written(<<obs.viewer, obs.target>>)) =>
           obs.mem = ZeroResult /\ obs.red = ZeroResult
    /\ (obs.op = "top" /\ NeverWritten(obs.viewer)) =>
           obs.mem = Returned(<<>>) /\ obs.red = <<>>

\* While other pairs of the viewer are stored, GetMatch was asked for a pair
\* that is not.
C13_Witness ==
    /\ obs.op = "get" /\ obs.viewer = "u1" /\ obs.target = "u2"
    /\ ~Written(<<"u1", "u2">>)
    /\ Written(<<"u1", "u3">>) /\ Written(<<"u2", "u1">>)
    /\ obs.mem = ZeroResult /\ obs.red = ZeroResult

\* The weight of targetID in the ranking of viewerID; none when it is not in it.
Weight(zs, viewerID, targetID) ==
    IF Ranked(zs, viewerID, targetID)
    THEN <<zs[RankKey(viewerID)][targetID]>> ELSE <<>>

\* C23: UpdateMatch(A, B, r) changes the entry and the ranking position of
\* the pair (A, B) and nothing else, on either backend: after it GetMatch
\* returns for (B, A) and for every other pair what it returned before,
\* GetTopMatches returns for every other viewer what it returned before, and
\* every other member of A's ranking keeps its weight.
C23_UpdateIsDirectional ==
    [][obs'.op = "update" =>
          /\ \A pr \in Pairs :
                 pr # <<obs'.viewer, obs'.target>> =>
                     /\ MemGetMatch(cache', pr[1], pr[2]) = MemGetMatch(cache, pr[1], pr[2])
                     /\ RedisGetMatch(rkv', pr[1], pr[2]) = RedisGetMatch(rkv, pr[1], pr[2])
                     /\ Weight(rzset', pr[1], pr[2]) = Weight(rzset, pr[1], pr[2])
          /\ \A viewerID \in IDs \ {obs'.viewer}, n \in 0..MaxN :
                 /\ MemGetTopMatches(cache', viewerID, n) = MemGetTopMatches(cache, viewerID, n)
                 /\ RedisGetTopMatches(rkv', rzset', viewerID, n)
                        = RedisGetTopMatches(rkv, rzset, viewerID, n)
          /\ MemGetMatch(cache', obs'.viewer, obs'.target) = [m |-> obs'.m, ok |-> TRUE]
          /\ RedisGetMatch(rkv', obs'.viewer, obs'.target) = [m |-> obs'.m, ok |-> TRUE]
      ]_vars

\* UpdateMatch(u1, u2) has just stored a score of 150 while the pair
\* (u2, u1) holds a score of -5, on both backends, and u1 has another entry.
C23_Witness ==
    /\ obs.op = "update" /\ obs.viewer = "u1" /\ obs.target = "u2"
    /\ obs.m.Score = 150
    /\ ServiceGetMatch(cache, "u1", "u2").Score = 150
    /\ ServiceGetMatch(cache, "u2", "u1").Score = -5
    /\ ServiceGetMatchRedis(rkv, "u2", "u1").Score = -5
    /\ Weight(rzset, "u2", "u1") = <<-5>>
    /\ Written(<<"u1", "u3">>)

-----------------------------------------------------------------------------
(* Properties of the Service with seeds and workers (SpecService) *)

\* The pair a job computes.
PairOf(job) == <<job.viewer.ID, job.candidate.ID>>

\* The step ends a job with success.
JobSucceeds == outcomes'.n = outcomes.n + 1 /\ outcomes'.kind = "ok"

\* The step is a LoadFromFile that returns without error.
SeedLoads == obs'.op = "load" /\ ~obs'.err /\ UNCHANGED pipeVars

\* C25: every entry of the store is the result last written for its pair by
\* a seed record or by a worker after a successful oracle call; and a pair
\* gets its entry only in a step in which a worker ends a job for that
\* viewer and candidate with success, after an oracle call for it, or in a
\* load of a file that has a record for the pair: never in a read, a call of
\* CalculateMatchesAsync, a send or a job that fails.
C25_EntriesHaveProvenance ==
    /\ [](\A pr \in Pairs :
              MemGetMatch(cache, pr[1], pr[2]).ok =>
                  /\ Written(pr)
                  /\ MemGetMatch(cache, pr[1], pr[2]).m = lastWrite[pr])
    /\ [][\A pr \in Pairs :
              (~MemGetMatch(cache, pr[1], pr[2]).ok /\ MemGetMatch(cache', pr[1], pr[2]).ok) =>
                  \/ /\ JobSucceeds
                     /\ pr = PairOf(outcomes'.job)
                     /\ InBag(calls, outcomes'.job) >= 1
                     /\ MemGetMatch(cache', pr[1], pr[2]).m.Timestamp \in WorkerTimes
                  \/ /\ SeedLoads
                     /\ \E i \in DOMAIN obs'.file.matches :
                            /\ obs'.file.matches[i].ViewerID = pr[1]
                            /\ obs'.file.matches[i].TargetID = pr[2]
         ]_vars

\* Both calls are over.  The store holds a computed and a seeded entry, none
\* for the job that ended for want of data, none for the job whose oracle
\* call failed, and a caller has read the ranking.
C25_Witness ==
    /\ Len(tasks) = 2 /\ Drained
    /\ \A k \in DOMAIN tasks : tasks[k].pc = "done"
    /\ MemGetMatch(cache, "u2", "u3").m.Timestamp \in WorkerTimes
    /\ MemGetMatch(cache, "u2", "u4").m.Timestamp \in Times
    /\ InBag(dequeued, Job(Profile("u1"), Profile("u2"))) = 1
    /\ ~MemGetMatch(cache, "u1", "u2").ok
    /\ InBag(calls, Job(Profile("u3"), Profile("u2"))) = 1
    /\ ~MemGetMatch(cache, "u3", "u2").ok
    /\ obs.op = "top"

\* C26: a worker's successful computation replaces whatever the pair held,
\* a seeded result too; a load replaces whatever the pairs of its records
\* held, computed results too; and every answer of GetTopMatches is a top-n
\* answer by score over all entries of the viewer, seeded and computed.
C26_SeededAndComputedAlike ==
    /\ [][JobSucceeds =>
              LET pr == PairOf(outcomes'.job)
                  g  == MemGetMatch(cache', pr[1], pr[2])
              IN  /\ g.ok
                  /\ g.m = lastWrite'[pr]
                  /\ g.m.TargetID = pr[2]
                  /\ g.m.Timestamp \in WorkerTimes
         ]_vars
    /\ [][SeedLoads =>
              \A i \in DOMAIN obs'.file.matches :
                  LET rec  == obs'.file.matches[i]
                      last == LastRecord(obs'.file.matches, i)
                  IN  ServiceGetMatch(cache', rec.ViewerID, rec.TargetID)
                          = [TargetID |-> rec.TargetID, Score |-> last.Score,
                             Reason |-> last.Reason, Timestamp |-> obs'.now]
         ]_vars
    /\ [](\A viewerID \in IDs, n \in 0..MaxN :
              \A ret \in MemGetTopMatches(cache, viewerID, n) :
                  TopAnswer(cache, viewerID, n, ret, FALSE))

\* A file with a record for (u2, u3) was loaded, a worker has since stored
\* its own result for the pair, and the ranking of u2 lists that computed
\* result ahead of a seeded one.
C26_Witness ==
    /\ obs.op = "load" /\ ~obs.err
    /\ MemGetMatch(cache, "u2", "u3").m.Timestamp \in WorkerTimes
    /\ MemGetMatch(cache, "u2", "u4").m.Timestamp \in Times
    /\ \E ret \in MemGetTopMatches(cache, "u2", 2) :
           /\ ret.out[1].Timestamp \in WorkerTimes
           /\ ret.out[2].Timestamp \in Times

\* C34: every entry that a worker or a seed load wrote under the key
\* (viewer, target) carries TargetID = target, so every element of every
\* answer GetTopMatches(viewer, n) can give is the entry stored under the
\* target it names, and so is every element of the answer a caller got.
C34_EntriesNameTheirTarget ==
    /\ [](\A v \in DOMAIN cache : \A t \in DOMAIN cache[v] : cache[v][t].TargetID = t)
    /\ [](\A v \in IDs, n \in 0..MaxN : \A ret \in MemGetTopMatches(cache, v, n) :
              \A i \in DOMAIN ret.out :
                  /\ ret.out[i].TargetID \in DOMAIN cache[v]
                  /\ cache[v][ret.out[i].TargetID] = ret.out[i])
    /\ [][(obs' # obs /\ obs'.op = "top") =>
              \A i \in DOMAIN obs'.ret.out :
                  /\ obs'.ret.out[i].TargetID \in DOMAIN cache[obs'.viewer]
                  /\ cache[obs'.viewer][obs'.ret.out[i].TargetID] = obs'.ret.out[i]]_vars

\* A caller got a list of two, one element written by a worker and one by a
\* seed load.
C34_Witness ==
    /\ obs.op = "top" /\ Len(obs.ret.out) = 2
    /\ \E i \in DOMAIN obs.ret.out : obs.ret.out[i].Timestamp \in WorkerTimes
    /\ \E i \in DOMAIN obs.ret.out : obs.ret.out[i].Timestamp \in Times

-----------------------------------------------------------------------------
(* Properties of re-triggered calls (SpecRetrigger) *)

\* Every call has sent its jobs, the queue is empty and every worker waits.
Settled ==
    /\ tasks # <<>>
    /\ \A k \in DOMAIN tasks : tasks[k].pc = "done"
    /\ Drained

\* The score and the reason stored for the pair of the job.
StoredAnswer(job) ==
    LET m == ServiceGetMatch(cache, job.viewer.ID, job.candidate.ID)
    IN  [Score |-> m.Score, Reason |-> m.Reason]

\* C29: once the queue has drained and every worker waits, the result
\* stored for a pair is the one computed from the job queued last for that
\* pair: for each job of the latest call, the oracle's answer for that job's
\* profiles.
C29_FreshestResultStored ==
    Settled =>
        LET last == tasks[Len(tasks)]
        IN  \A i \in DOMAIN last.sent : StoredAnswer(last.sent[i]) = OracleAnswer(last.sent[i])

\* Every job dequeued so far for the pair of job j is a copy of j.
OnlyCopies(j) == \A x \in DOMAIN dequeued : PairOf(x) = PairOf(j) => x = j

\* The score and the reason store c holds for every pair.
Answered(c) ==
    [pr \in Pairs |->
        LET g == MemGetMatch(c, pr[1], pr[2])
        IN  <<g.ok, g.m.TargetID, g.m.Score, g.m.Reason>>]

\* C30: with an oracle that gives one answer per (viewer, candidate) input,
\* a pair for which one or more copies of one job were processed holds the
\* score and the reason of that answer, as after one copy; a job that ends
\* with success changes no other pair; and a copy processed after the first
\* changes no score and no reason at all.
C30_DuplicateJobsIdempotent ==
    /\ [](\A j \in DOMAIN dequeued :
              (OnlyCopies(j) /\ Written(PairOf(j))) => StoredAnswer(j) = OracleAnswer(j))
    /\ [][JobSucceeds =>
              \A pr \in Pairs :
                  pr # PairOf(outcomes'.job) => Answered(cache')[pr] = Answered(cache)[pr]]_vars
    /\ [][(/\ JobSucceeds
           /\ OnlyCopies(outcomes'.job)
           /\ Written(PairOf(outcomes'.job)))
              => Answered(cache') = Answered(cache)]_vars

\* Three calls with the same snapshot are over: each of the two jobs was
\* processed three times and its pair holds the oracle's answer for it.
C30_Witness ==
    /\ Settled
    /\ Len(tasks) = 3
    /\ outcomes.n = 6
    /\ \A j \in DOMAIN dequeued :
           /\ dequeued[j] = 3
           /\ OnlyCopies(j)
           /\ StoredAnswer(j) = OracleAnswer(j)
           /\ OracleAnswer(j) = PMid

-----------------------------------------------------------------------------
(* Properties of seed loading under concurrency (SpecSeed) *)

\* A goroutine is in the loop of LoadFromFile.
Loading(p) == procs[p].pc = "insert"

\* C33: seed loading fails cleanly in the in-process backend.  A load whose
\* file cannot be read or is not a JSON array of records returns an error and
\* leaves the map and its write history as they were; a load that succeeds
\* holds the write lock from before its first insertion to after its last,
\* so that no other goroutine is inside the store meanwhile, a reader's view
\* of the map is never one taken in the middle of a load, and what the load
\* leaves is what it found with all its records inserted in file order.
C33_SeedLoadFailsCleanly ==
    /\ [][(obs' # obs /\ obs'.op = "lload" /\ obs'.err) =>
              /\ obs'.file.readErr \/ obs'.file.jsonErr
              /\ cache' = cache /\ lastWrite' = lastWrite
              /\ mu' = mu /\ procs' = procs]_vars
    /\ [](\A file \in SeedFiles, now \in Times :
              LET r == MemLoadFromFile(cache, file, now)
              IN  (file.readErr \/ file.jsonErr) => (r.err /\ r.cache = cache))
    /\ [](\A p \in LockProcs : Loading(p) =>
              /\ mu.writer = p /\ mu.readers = {}
              /\ \A q \in LockProcs \ {p} : ~Inside(q))
    /\ [](\A q \in LockProcs : procs[q].pc = "range" =>
              /\ cache = procs[q].snap
              /\ \A p \in LockProcs : ~Loading(p))
    /\ [][(\E p \in LockProcs : Loading(p) /\ ~Loading(p)') =>
              /\ obs'.op = "lload" /\ ~obs'.err
              /\ cache' = cache
              /\ \E now \in Times :
                     cache' = MemLoadFromFile(obs'.before, obs'.file, now).cache]_vars

\* A load of the three-record file has returned and a reader is at work on
\* the map it left.
C33_Witness ==
    /\ obs.op = "lload" /\ ~obs.err
    /\ Len(obs.file.matches) = 3
    /\ obs.before # obs.after
    /\ procs[SeedReader].pc = "range"
    /\ procs[SeedReader].snap = obs.after
    /\ procs[SeedReader].matches # <<>>

-----------------------------------------------------------------------------
(* Properties of the user store (SpecUsers) *)

\* C36: the user store keeps a freshly written profile: in the state an
\* upsert(u) leaves, get(u.ID) finds the profile upsert stored for u, also
\* when the upsert took the store over its limit and entries were evicted.
C36_FreshProfileKept ==
    obs.op = "upsert" =>
        LET r == UserStoreGet(users, obs.user.ID)
        IN  r.ok /\ r.user = Normalised(obs.user)

-----------------------------------------------------------------------------
(* Properties of the OAuth state store (SpecStates) *)

\* C37: an OAuth state is redeemable at most once and never after its
\* expiry.  For every state the pops that returned a verifier are never more
\* than the puts; a pop that returns a verifier returns the one of the entry
\* it found, removes the entry, and reads a time that is not after the
\* entry's expiry; a pop that reads a time after the expiry of the entry
\* returns not-found.
C37_StateRedeemedOnce ==
    /\ [](\A st \in OAuthStates : pops[st] <= puts[st])
    /\ []((obs.op = "pop" /\ obs.ok) =>
              /\ obs.found /\ obs.verifier \in Verifiers
              /\ obs.at <= obs.expiresAt)
    /\ []((obs.op = "pop" /\ obs.found /\ obs.at > obs.expiresAt) =>
              ~obs.ok /\ obs.verifier = "")
    /\ [][\A st \in OAuthStates : pops'[st] # pops[st] =>
              /\ pops'[st] = pops[st] + 1
              /\ st \in DOMAIN states /\ st \notin DOMAIN states'
              /\ obs'.op = "pop" /\ obs'.state = st /\ obs'.ok
              /\ obs'.verifier = states[st].verifier
              /\ ~(clock' > states[st].expiresAt)]_vars
    /\ [][\A st \in OAuthStates :
              (obs' # obs /\ obs'.op = "pop" /\ obs'.state = st /\ st \notin DOMAIN states)
                  => ~obs'.ok]_vars

\* A state was put, redeemed and put again, and the pop of the second entry
\* came after its expiry and returned not-found.
C37_Witness ==
    /\ obs.op = "pop" /\ obs.found /\ ~obs.ok
    /\ obs.at > obs.expiresAt
    /\ pops[obs.state] = 1
    /\ puts[obs.state] = 2

-----------------------------------------------------------------------------
(* Properties of tweet fetching (SpecTweets) *)

\* C38: tweet fetching is throttled per user: two requests to the feed API
\* for one user are never started within one window of FetchWindow ticks of
\* each other, also when fetchUserTweets runs concurrently for that user.
C38_OneRequestPerWindow ==
    \A r1 \in requests, r2 \in requests :
        (r1 # r2 /\ r1.user = r2.user) =>
            (r1.at - r2.at > FetchWindow \/ r2.at - r1.at > FetchWindow)

-----------------------------------------------------------------------------
(* Properties of the queue order (SpecOrder) *)

\* Where job j stands in queue q.
Pos(q, j) == CHOOSE i \in DOMAIN q : q[i] = j

\* C31: jobs leave the queue in the order they entered it.  A job enters
\* at the tail and the job a worker receives is the one at the head, the
\* oldest one queued.  So every job a call has sent is either dequeued or
\* in the queue, once; and of two jobs of one call, (primary, c) then
\* (c, primary) for each candidate in list order, the later one is dequeued
\* only after the earlier one and stands behind it while both are queued.
C31_QueueIsFIFO ==
    /\ [][jobs' # jobs =>
              \/ /\ \E k \in DOMAIN tasks :
                        /\ tasks[k].pc \in {"send1", "send2"}
                        /\ jobs' = Append(jobs, SendJob(tasks[k]))
                 /\ dequeued' = dequeued
              \/ /\ jobs # <<>>
                 /\ jobs' = Tail(jobs)
                 /\ dequeued' = Count(dequeued, Head(jobs))]_vars
    /\ [](\A k \in DOMAIN tasks :
              LET sent == tasks[k].sent
              IN  /\ IsPrefix(sent, ExpectedJobs(tasks[k].primary, tasks[k].candidates))
                  /\ \A a \in DOMAIN sent : InBag(dequeued, sent[a]) + InSeq(jobs, sent[a]) = 1
                  /\ \A a, b \in DOMAIN sent :
                         a < b =>
                             /\ InBag(dequeued, sent[b]) = 1 => InBag(dequeued, sent[a]) = 1
                             /\ (InSeq(jobs, sent[a]) = 1 /\ InSeq(jobs, sent[b]) = 1)
                                    => Pos(jobs, sent[a]) < Pos(jobs, sent[b]))

\* The four jobs of the call with two candidates were dequeued, the last of
\* them by now, while a job of the other call waits in the queue.
C31_Witness ==
    /\ Len(tasks) = 2
    /\ \E k \in DOMAIN tasks :
           /\ Len(tasks[k].candidates) = 2
           /\ tasks[k].pc = "done"
           /\ \A i \in DOMAIN tasks[k].sent : InBag(dequeued, tasks[k].sent[i]) = 1
    /\ BagSize(dequeued) = 4
    /\ jobs # <<>>

=============================================================================
